---- MODULE Spec2Model ----
(***************************************************************************)
(* cineverse-api: the service layer (services/movieService.ts) and the     *)
(* graph store its Cypher statements act on.                               *)
(*                                                                         *)
(* The store is modelled as two bags: a bag of node records and a bag of   *)
(* relationship records.  Bags (not sets) are used so that a duplicate     *)
(* node or a parallel relationship is a representable state: whether one   *)
(* can arise is decided by the statements (MERGE / MATCH / DETACH DELETE), *)
(* not by the representation.  A relationship names its endpoints by       *)
(* (label, key).  res is the outcome of the operation that completed last; *)
(* listing is the list call in flight, between its count statement and its *)
(* page statement (the only operation that runs two statements).           *)
(***************************************************************************)
EXTENDS Integers, Sequences, FiniteSets, Bags, TLC

VARIABLES nodes, edges, res, listing, http, calls

vars == <<nodes, edges, res, listing, http, calls>>

(* ------------------------------ bounds --------------------------------- *)

MaxNodes == 3
MaxEdges == 2
MaxGenreList == 2

PersonNames == {"A"}
Titles == {"T1", "T2"}
GenreNames == {"A", "B"}
StudioNames == {"A"}

NoVal == "null"
BornVals == {NoVal, "1960"}
\* (released, tagline) of an addMovie call: both omitted, or both given
MovieAttrs == {<<NoVal, NoVal>>, <<"1999", "tag">>}
RoleLists == {<<"r1">>, <<"r2">>}

GenreLists == UNION {[1..k -> GenreNames] : k \in 0..MaxGenreList}

(* ------------------------------ records -------------------------------- *)

RelTypes == {"ACTED_IN", "DIRECTED", "HAS_GENRE", "PRODUCED"}

Node(label, key, released, tagline, born) ==
    [label |-> label, key |-> key, released |-> released,
     tagline |-> tagline, born |-> born]

Rel(type, fl, fk, tl, tk, roles) ==
    [type |-> type, fl |-> fl, fk |-> fk, tl |-> tl, tk |-> tk, roles |-> roles]

\* a result that may be null: <<>> for null, <<v>> for the value v
Null == <<>>

Some(v) == <<v>>

Result(op, a, t, x, status, nc, nd, rc, rd) ==
    [op |-> op, a |-> a, t |-> t, x |-> x, status |-> status,
     nc |-> nc, nd |-> nd, rc |-> rc, rd |-> rd, out |-> Null]

\* no list call has run yet
NoListing ==
    [phase |-> "idle", label |-> NoVal, page |-> 0, limit |-> 0,
     totalItems |-> 0, writes |-> 0, history |-> {}]

\* no request has been answered yet
NoResponse ==
    [route |-> "none", params |-> <<>>, body |-> <<>>, stage |-> "none",
     status |-> 0, error |-> Null]

\* no service call is in flight and no session is open
NoCalls == [c \in {} |-> 0]

(* ------------------------------ bag helpers ---------------------------- *)

RECURSIVE SumCopies(_, _)
SumCopies(B, S) ==
    IF S = {} THEN 0
    ELSE LET x == CHOOSE y \in S : TRUE
         IN CopiesIn(x, B) + SumCopies(B, S \ {x})

BagFilter(B, Keep(_)) ==
    LET S == {x \in BagToSet(B) : Keep(x)}
    IN [x \in S |-> B[x]]

BagMap(B, F(_)) ==
    LET S == BagToSet(B)
        T == {F(x) : x \in S}
    IN [y \in T |-> SumCopies(B, {x \in S : F(x) = y})]

BagCount(B, P(_)) == SumCopies(B, {x \in BagToSet(B) : P(x)})

(* ------------------------------ Cypher clauses ------------------------- *)

\* MATCH (n:Label {key: $key}) -- number of rows
MatchCount(N, label, key) ==
    BagCount(N, LAMBDA n : n.label = label /\ n.key = key)

HasNode(N, label, key) == MatchCount(N, label, key) > 0

\* the property that carries a node's key: title for Movie, name otherwise
KeyProp(label) == IF label = "Movie" THEN "title" ELSE "name"

\* ON MATCH SET m.released = $released, m.tagline = $tagline is SetMovie;
\* SetReleased is a statement that writes the first property only
SetReleased(n, released, tagline) == [n EXCEPT !.released = released]

\* KeepOmitted is a statement that writes only the properties the call gives
KeepOmitted(n, released, tagline) ==
    [n EXCEPT !.released = IF released = NoVal THEN @ ELSE released,
              !.tagline = IF tagline = NoVal THEN @ ELSE tagline]

SetMovie(n, released, tagline) ==
    [n EXCEPT !.released = released, !.tagline = tagline]

\* MERGE (m:Movie {title: $title}) ON CREATE SET ... ON MATCH SET ...
\* is UpsertMovie; CreateMovie is what a plain CREATE would do instead
CreateMovie(N, title, released, tagline) ==
    N (+) SetToBag({Node("Movie", title, released, tagline, NoVal)})

UpsertMovie(N, title, released, tagline) ==
    IF HasNode(N, "Movie", title)
    THEN BagMap(N, LAMBDA n : IF n.label = "Movie" /\ n.key = title
                              THEN SetMovie(n, released, tagline)
                              ELSE n)
    ELSE N (+) SetToBag({Node("Movie", title, released, tagline, NoVal)})

\* MERGE (p:Person {name: $name}) ON CREATE SET p.born = $born ON MATCH SET ...
UpsertPerson(N, name, born) ==
    IF HasNode(N, "Person", name)
    THEN BagMap(N, LAMBDA n : IF n.label = "Person" /\ n.key = name
                              THEN [n EXCEPT !.born = born]
                              ELSE n)
    ELSE N (+) SetToBag({Node("Person", name, NoVal, NoVal, born)})

\* MERGE (n:Label {name: $name}) for the labels without further properties
MergeNamed(N, label, name) ==
    IF HasNode(N, label, name)
    THEN N
    ELSE N (+) SetToBag({Node(label, name, NoVal, NoVal, NoVal)})

\* rows of  MATCH (a:FromLabel {..: $from})  MATCH (b:ToLabel {..: $to})
\* are EndpointRows; OnlyTargetRows is the second MATCH alone
OnlyTargetRows(N, fl, fk, tl, tk) == MatchCount(N, tl, tk)

EndpointRows(N, fl, fk, tl, tk) ==
    MatchCount(N, fl, fk) * MatchCount(N, tl, tk)

Between(e, type, fl, fk, tl, tk) ==
    /\ e.type = type
    /\ e.fl = fl /\ e.fk = fk
    /\ e.tl = tl /\ e.tk = tk

RelCount(E, type, fl, fk, tl, tk) ==
    BagCount(E, LAMBDA e : Between(e, type, fl, fk, tl, tk))

\* ON CREATE SET r.roles = $roles / ON MATCH SET r.roles = $roles is
\* SetRoles; KeepRoles is a MERGE without the ON MATCH clause
KeepRoles(old, new) == old

SetRoles(old, new) == new

\* MERGE (a)-[r:TYPE]->(b) [ON CREATE SET r.roles = $roles ON MATCH SET ...]
\* is MergeRel; CreateRel is what a plain CREATE would do instead
CreateRel(E, type, fl, fk, tl, tk, roles) ==
    E (+) SetToBag({Rel(type, fl, fk, tl, tk, roles)})

MergeRel(E, type, fl, fk, tl, tk, roles) ==
    IF RelCount(E, type, fl, fk, tl, tk) > 0
    THEN BagMap(E, LAMBDA e : IF Between(e, type, fl, fk, tl, tk)
                              THEN [e EXCEPT !.roles = SetRoles(e.roles, roles)]
                              ELSE e)
    ELSE E (+) SetToBag({Rel(type, fl, fk, tl, tk, roles)})

Touches(e, label, key) ==
    \/ e.fl = label /\ e.fk = key
    \/ e.tl = label /\ e.tk = key

\* MATCH (n:Label {..: $key}) DETACH DELETE n  -- the node part
DeleteNodes(N, label, key) ==
    BagFilter(N, LAMBDA n : ~(n.label = label /\ n.key = key))

\* ... and the relationships DETACH removes with it (DetachRels: those in
\* either direction; DetachIncomingOnly: only those pointing at the node)
DetachIncomingOnly(E, label, key) ==
    BagFilter(E, LAMBDA e : ~(e.tl = label /\ e.tk = key))

DetachRels(E, label, key) ==
    BagFilter(E, LAMBDA e : ~Touches(e, label, key))

Size(B) == BagCardinality(B)

Fits(N, E) == Size(N) <= MaxNodes /\ Size(E) <= MaxEdges

(* ------------------------------ follow queries ------------------------- *)

\* rows of  MATCH (a:FromLabel {..: $key})-[r:TYPE]->(b:ToLabel)
Outgoing(N, E, type, fl, fk, tl) ==
    {e \in BagToSet(E) : /\ e.type = type /\ e.fl = fl /\ e.fk = fk /\ e.tl = tl
                         /\ HasNode(N, fl, fk) /\ HasNode(N, tl, e.tk)}

\* rows of  MATCH (a:FromLabel)-[r:TYPE]->(b:ToLabel {..: $key})
Incoming(N, E, type, fl, tl, tk) ==
    {e \in BagToSet(E) : /\ e.type = type /\ e.fl = fl /\ e.tl = tl /\ e.tk = tk
                         /\ HasNode(N, fl, e.fk) /\ HasNode(N, tl, tk)}

NodesOf(N, label, key) == {n \in BagToSet(N) : n.label = label /\ n.key = key}

getMoviesByActor(N, E, actorName) ==
    UNION {{[title |-> m.key, released |-> m.released, tagline |-> m.tagline,
             roles |-> e.roles] : m \in NodesOf(N, "Movie", e.tk)} :
              e \in Outgoing(N, E, "ACTED_IN", "Person", actorName, "Movie")}

getActorsInMovie(N, E, movieTitle) ==
    {[actorName |-> e.fk, roles |-> e.roles] :
        e \in Incoming(N, E, "ACTED_IN", "Person", "Movie", movieTitle)}

MovieProps(m) == [title |-> m.key, released |-> m.released, tagline |-> m.tagline]

MoviesFrom(N, E, type, fl, fk) ==
    {MovieProps(m) : m \in UNION {NodesOf(N, "Movie", e.tk) :
                                    e \in Outgoing(N, E, type, fl, fk, "Movie")}}

getMoviesDirectedByPerson(N, E, directorName) ==
    MoviesFrom(N, E, "DIRECTED", "Person", directorName)

getMoviesByStudio(N, E, studioName) ==
    MoviesFrom(N, E, "PRODUCED", "Studio", studioName)

getMoviesByGenre(N, E, genreName) ==
    {MovieProps(m) : m \in UNION {NodesOf(N, "Movie", e.fk) :
                        e \in Incoming(N, E, "HAS_GENRE", "Movie", "Genre", genreName)}}

(* ------------------------------ operations ----------------------------- *)

Init ==
    /\ nodes = EmptyBag
    /\ edges = EmptyBag
    /\ res = Result("init", NoVal, NoVal, NoVal, "ok", 0, 0, 0, 0)
    /\ listing = NoListing
    /\ http = NoResponse
    /\ calls = NoCalls

addMovie(title, released, tagline) ==
    LET N2 == UpsertMovie(nodes, title, released, tagline)
    IN /\ Fits(N2, edges)
       /\ nodes' = N2
       /\ edges' = edges
       /\ res' = Result("addMovie", NoVal, title, <<released, tagline>>, "ok",
                        Size(N2) - Size(nodes), 0, 0, 0)

addPerson(name, born) ==
    LET N2 == UpsertPerson(nodes, name, born)
    IN /\ Fits(N2, edges)
       /\ nodes' = N2
       /\ edges' = edges
       /\ res' = Result("addPerson", name, NoVal, born, "ok",
                        Size(N2) - Size(nodes), 0, 0, 0)

addGenre(name) ==
    LET N2 == MergeNamed(nodes, "Genre", name)
    IN /\ Fits(N2, edges)
       /\ nodes' = N2
       /\ edges' = edges
       /\ res' = Result("addGenre", name, NoVal, NoVal, "ok",
                        Size(N2) - Size(nodes), 0, 0, 0)

addStudio(name) ==
    LET N2 == MergeNamed(nodes, "Studio", name)
    IN /\ Fits(N2, edges)
       /\ nodes' = N2
       /\ edges' = edges
       /\ res' = Result("addStudio", name, NoVal, NoVal, "ok",
                        Size(N2) - Size(nodes), 0, 0, 0)

\* the three two-endpoint connects share one shape: MATCH, MATCH, MERGE
\* and NotFoundError when the statement returns no record
Connect(op, type, fl, fk, tl, tk, roles) ==
    LET rows == EndpointRows(nodes, fl, fk, tl, tk)
        E2 == IF rows = 0 THEN edges
              ELSE MergeRel(edges, type, fl, fk, tl, tk, roles)
    IN /\ Fits(nodes, E2)
       /\ nodes' = nodes
       /\ edges' = E2
       /\ res' = Result(op, fk, tk, roles,
                        IF rows = 0 THEN "NotFound" ELSE "ok",
                        0, 0, Size(E2) - Size(edges), 0)

connectActorToMovie(actorName, movieTitle, roles) ==
    Connect("connectActorToMovie", "ACTED_IN",
            "Person", actorName, "Movie", movieTitle, roles)

connectDirectorToMovie(directorName, movieTitle) ==
    Connect("connectDirectorToMovie", "DIRECTED",
            "Person", directorName, "Movie", movieTitle, NoVal)

connectStudioToMovie(studioName, movieTitle) ==
    Connect("connectStudioToMovie", "PRODUCED",
            "Studio", studioName, "Movie", movieTitle, NoVal)

\* UNWIND $genreNames AS genreName  MERGE (g:Genre {name: genreName})
\*                                  MERGE (m)-[r:HAS_GENRE]->(g)
\* row by row, each MERGE seeing what the rows before it wrote; records
\* counts the rows that reach RETURN.  MergeGenre is the statement's first
\* MERGE; MatchGenre is a MATCH in its place, which creates nothing
MatchGenre(N, name) == N

MergeGenre(N, name) == MergeNamed(N, "Genre", name)

RECURSIVE UnwindGenres(_, _, _, _, _)
UnwindGenres(N, E, movieTitle, genreNames, records) ==
    IF genreNames = <<>> THEN [n |-> N, e |-> E, records |-> records]
    ELSE LET g == Head(genreNames)
             N2 == MergeGenre(N, g)
             rows == EndpointRows(N2, "Movie", movieTitle, "Genre", g)
             E2 == IF rows = 0 THEN E
                   ELSE MergeRel(E, "HAS_GENRE", "Movie", movieTitle, "Genre", g, NoVal)
         IN UnwindGenres(N2, E2, movieTitle, Tail(genreNames), records + rows)

\* MATCH (m:Movie {title: $movieTitle}) ahead of the UNWIND: without a
\* movie there is no row to unwind (OptionalMatch would keep one)
OptionalMatch(N, movieTitle) == TRUE

MatchMovie(N, movieTitle) == HasNode(N, "Movie", movieTitle)

connectMovieToGenre(movieTitle, genreNames) ==
    LET w == IF MatchMovie(nodes, movieTitle)
             THEN UnwindGenres(nodes, edges, movieTitle, genreNames, 0)
             ELSE [n |-> nodes, e |-> edges, records |-> 0]
    IN /\ Fits(w.n, w.e)
       /\ nodes' = w.n
       /\ edges' = w.e
       /\ res' = Result("connectMovieToGenre", NoVal, movieTitle, genreNames,
                        IF w.records = 0 THEN "NotFound" ELSE "ok",
                        Size(w.n) - Size(nodes), 0, Size(w.e) - Size(edges), 0)

\* MATCH (n:Label {..}) DETACH DELETE n; NotFoundError when the summary
\* reports no update
DetachDelete(op, label, key) ==
    LET N2 == DeleteNodes(nodes, label, key)
        E2 == IF HasNode(nodes, label, key)
              THEN DetachRels(edges, label, key) ELSE edges
        nd == Size(nodes) - Size(N2)
        rd == Size(edges) - Size(E2)
    IN /\ nodes' = N2
       /\ edges' = E2
       /\ res' = Result(op, IF label = "Person" THEN key ELSE NoVal,
                        IF label = "Movie" THEN key ELSE NoVal, NoVal,
                        IF nd + rd > 0 THEN "ok" ELSE "NotFound",
                        0, nd, 0, rd)

deleteMovie(title) == DetachDelete("deleteMovie", "Movie", title)

deletePerson(name) == DetachDelete("deletePerson", "Person", name)

\* MATCH (from)-[r]->(to) WHERE from.name = $fromName AND to.title = $toName
\*   AND type(r) = $relationshipType
\* a node has a name iff it is not a Movie, a title iff it is a Movie
RelationshipMatches(N, e, fromName, toName, relationshipType) ==
    /\ HasNode(N, e.fl, e.fk) /\ HasNode(N, e.tl, e.tk)
    /\ KeyProp(e.fl) = "name" /\ e.fk = fromName
    /\ KeyProp(e.tl) = "title" /\ e.tk = toName
    /\ e.type = relationshipType

deleteRelationship(fromName, toName, relationshipType) ==
    LET E2 == BagFilter(edges, LAMBDA e :
                 ~RelationshipMatches(nodes, e, fromName, toName, relationshipType))
        rd == Size(edges) - Size(E2)
    IN /\ nodes' = nodes
       /\ edges' = E2
       /\ res' = Result("deleteRelationship", fromName, toName, relationshipType,
                        IF rd > 0 THEN "ok" ELSE "NotFound", 0, 0, 0, rd)

Names == PersonNames \cup GenreNames \cup StudioNames

\* request bodies for DELETE /relationships: a name and a title, and for
\* HAS_GENRE also the keys in the relationship's own direction
DeleteRelInputs ==
    (Names \X Titles \X RelTypes) \cup (Titles \X GenreNames \X {"HAS_GENRE"})

Next ==
    \/ \E t \in Titles, m \in MovieAttrs : addMovie(t, m[1], m[2])
          /\ UNCHANGED <<listing, http, calls>>
    \/ \E n \in PersonNames, b \in BornVals : addPerson(n, b)
          /\ UNCHANGED <<listing, http, calls>>
    \/ \E n \in GenreNames : addGenre(n)
          /\ UNCHANGED <<listing, http, calls>>
    \/ \E n \in StudioNames : addStudio(n)
          /\ UNCHANGED <<listing, http, calls>>
    \/ \E a \in PersonNames, t \in Titles, r \in RoleLists : connectActorToMovie(a, t, r)
          /\ UNCHANGED <<listing, http, calls>>
    \/ \E d \in PersonNames, t \in Titles : connectDirectorToMovie(d, t)
          /\ UNCHANGED <<listing, http, calls>>
    \/ \E t \in Titles, gs \in GenreLists : connectMovieToGenre(t, gs)
          /\ UNCHANGED <<listing, http, calls>>
    \/ \E s \in StudioNames, t \in Titles : connectStudioToMovie(s, t)
          /\ UNCHANGED <<listing, http, calls>>
    \/ \E t \in Titles : deleteMovie(t)
          /\ UNCHANGED <<listing, http, calls>>
    \/ \E n \in PersonNames : deletePerson(n)
          /\ UNCHANGED <<listing, http, calls>>
    \/ \E i \in DeleteRelInputs : deleteRelationship(i[1], i[2], i[3])
          /\ UNCHANGED <<listing, http, calls>>

Spec == Init /\ [][Next]_vars

\* addMovie and addPerson alone, each optional property given or omitted
\* on its own
UpsertReleased == {NoVal, "1999", "2000"}
UpsertTaglines == {NoVal, "tag", "tag2"}
UpsertBorn == {NoVal, "1960", "1970"}

NextUpsert ==
    \/ \E t \in Titles, y \in UpsertReleased, g \in UpsertTaglines : addMovie(t, y, g)
          /\ UNCHANGED <<listing, http, calls>>
    \/ \E n \in PersonNames, b \in UpsertBorn : addPerson(n, b)
          /\ UNCHANGED <<listing, http, calls>>

SpecUpsert == Init /\ [][NextUpsert]_vars

(* ------------------------------ shortest path -------------------------- *)

\* CALL apoc.algo.shortestPath(p1, p2, 'ACTED_IN|DIRECTED>', 5):
\* ACTED_IN in either direction, DIRECTED only along its direction
MaxHops == 5

PathFilter == {[type |-> "ACTED_IN", dir |-> "both"],
               [type |-> "DIRECTED", dir |-> "out"]}

Allows(filter, type, dir) ==
    \E f \in filter : f.type = type /\ f.dir \in {dir, "both"}

\* the hops that leave node x (a <<label, key>> pair) under a filter
HopsFrom(E, filter, x) ==
    {[rel |-> e, from |-> x, to |-> <<e.tl, e.tk>>] :
        e \in {r \in BagToSet(E) : /\ r.fl = x[1] /\ r.fk = x[2]
                                   /\ Allows(filter, r.type, "out")}}
    \cup
    {[rel |-> e, from |-> x, to |-> <<e.fl, e.fk>>] :
        e \in {r \in BagToSet(E) : /\ r.tl = x[1] /\ r.tk = x[2]
                                   /\ Allows(filter, r.type, "in")}}

\* the depth argument of the procedure is WithinLimit; AnyDepth is a search
\* without it
AnyDepth(depth, maxLevel) == TRUE

WithinLimit(depth, maxLevel) == depth <= maxLevel

\* breadth-first levels: levels[k + 1] is the set of nodes at distance k
RECURSIVE Levels(_, _, _, _, _)
Levels(E, filter, levels, seen, maxLevel) ==
    LET frontier == levels[Len(levels)]
        next == {h.to : h \in UNION {HopsFrom(E, filter, x) : x \in frontier}} \ seen
    IN IF next = {} \/ ~WithinLimit(Len(levels), maxLevel)
       THEN levels
       ELSE Levels(E, filter, Append(levels, next), seen \cup next, maxLevel)

\* distance from a to b within maxLevel hops, -1 when there is none
Distance(E, filter, a, b, maxLevel) ==
    LET levels == Levels(E, filter, <<{a}>>, {a}, maxLevel)
        at == {k \in 1..Len(levels) : b \in levels[k]}
    IN IF at = {} THEN -1 ELSE (CHOOSE k \in at : TRUE) - 1

\* the shortest hop sequences from a to x, x at distance k
RECURSIVE PathsTo(_, _, _, _, _)
PathsTo(E, filter, levels, x, k) ==
    IF k = 0 THEN {<<>>}
    ELSE UNION {{Append(p, h) : p \in PathsTo(E, filter, levels, h.from, k - 1)} :
                  h \in {g \in UNION {HopsFrom(E, filter, y) : y \in levels[k]} :
                            g.to = x}}

NoRow == [found |-> FALSE, start |-> <<NoVal, NoVal>>, segments |-> <<>>]

\* the rows the procedure can yield: any one of the shortest paths within
\* maxLevel hops (for start = end the path without segments), else no row
ShortestPathProc(E, filter, a, b, maxLevel) ==
    LET levels == Levels(E, filter, <<{a}>>, {a}, maxLevel)
        at == {k \in 1..Len(levels) : b \in levels[k]}
    IN IF at = {} THEN {NoRow}
       ELSE LET d == (CHOOSE k \in at : TRUE) - 1
                paths == {[found |-> TRUE, start |-> a, segments |-> p] :
                             p \in PathsTo(E, filter, levels, b, d)}
            IN paths

NodeSegment(N, x) ==
    LET n == CHOOSE m \in NodesOf(N, x[1], x[2]) : TRUE
    IN [type |-> "node", label |-> n.label,
        name |-> IF KeyProp(n.label) = "name" THEN n.key ELSE NoVal,
        title |-> IF KeyProp(n.label) = "title" THEN n.key ELSE NoVal,
        relationshipType |-> NoVal, roles |-> NoVal]

RelSegment(e) ==
    [type |-> "relationship", label |-> NoVal, name |-> NoVal, title |-> NoVal,
     relationshipType |-> e.type, roles |-> e.roles]

\* for (i = 0; i < path.segments.length; i++): start node, relationship,
\* and after the last segment its end node
RECURSIVE PathSegments(_, _, _)
PathSegments(N, segments, i) ==
    IF i > Len(segments) THEN <<>>
    ELSE <<NodeSegment(N, segments[i].from), RelSegment(segments[i].rel)>>
         \o (IF i = Len(segments) THEN <<NodeSegment(N, segments[i].to)>> ELSE <<>>)
         \o PathSegments(N, segments, i + 1)

getShortestPathBetweenActors(actor1Name, actor2Name) ==
    LET rows == IF HasNode(nodes, "Person", actor1Name)
                   /\ HasNode(nodes, "Person", actor2Name)
                THEN ShortestPathProc(edges, PathFilter, <<"Person", actor1Name>>,
                                      <<"Person", actor2Name>>, MaxHops)
                ELSE {NoRow}
    IN \E path \in rows :
        /\ res' = [Result("getShortestPathBetweenActors", actor1Name, actor2Name,
                          NoVal, "ok", 0, 0, 0, 0)
                     EXCEPT !.out = IF ~path.found THEN Null
                                    ELSE Some([path |-> PathSegments(nodes, path.segments, 1),
                                               length |-> Len(path.segments)])]
        /\ UNCHANGED <<nodes, edges>>

(* graphs for the path queries: PathPersons and PathMovies all present, and
   each person/movie pair of PathSlots carrying no relationship, an
   ACTED_IN or a DIRECTED one *)
PathPersons == <<"P1", "P2", "P3", "P4">>
PathMovies == <<"M1", "M2", "M3">>
Band == 1

PathSlots ==
    {<<PathPersons[p], PathMovies[m]>> :
        <<p, m>> \in {pm \in (1..Len(PathPersons)) \X (1..Len(PathMovies)) :
                         pm[1] - pm[2] \in 0..Band}}

PathGraph(choice) ==
    SetToBag({Rel(choice[sl], "Person", sl[1], "Movie", sl[2],
                  IF choice[sl] = "ACTED_IN" THEN <<"r1">> ELSE NoVal) :
                 sl \in {q \in PathSlots : choice[q] # "none"}})

InitPath ==
    /\ nodes = SetToBag({Node("Person", PathPersons[i], NoVal, NoVal, NoVal) :
                            i \in 1..Len(PathPersons)}
                        \cup {Node("Movie", PathMovies[i], NoVal, NoVal, NoVal) :
                            i \in 1..Len(PathMovies)})
    /\ \E choice \in [PathSlots -> {"none", "ACTED_IN", "DIRECTED"}] :
          edges = PathGraph(choice)
    /\ res = Result("init", NoVal, NoVal, NoVal, "ok", 0, 0, 0, 0)
    /\ listing = NoListing
    /\ http = NoResponse
    /\ calls = NoCalls

PathNames == {PathPersons[i] : i \in 1..Len(PathPersons)}

NextPath ==
    \E a \in PathNames, b \in PathNames :
        getShortestPathBetweenActors(a, b) /\ UNCHANGED <<listing, http, calls>>

SpecPath == InitPath /\ [][NextPath]_vars

(* ------------------------------ ordering ------------------------------- *)

\* ORDER BY on a string property: the keys of the model in the order the
\* database compares strings (code point by code point)
KeyOrder == <<"A", "B", "G1", "G2",
              "M01", "M02", "M03", "M04", "M05", "M06", "M07",
              "M08", "M09", "M10", "M11", "M12", "M13",
              "P1", "P2", "P3", "S1", "T1", "T2", "nobody", "nothing">>

Ord(k) == CHOOSE i \in 1..Len(KeyOrder) : KeyOrder[i] = k

\* the nodes of a bag in ascending order of their key
RECURSIVE SortNodes(_)
SortNodes(B) ==
    IF BagToSet(B) = {} THEN <<>>
    ELSE LET n == CHOOSE x \in BagToSet(B) :
                     \A y \in BagToSet(B) : Ord(x.key) <= Ord(y.key)
         IN <<n>> \o SortNodes(B (-) SetToBag({n}))

(* ------------------------------ paginated lists ------------------------ *)

MaxPage == 3
MaxLimit == 2
MaxWrites == 2

ListLabels == {"Movie", "Person"}

ListOp(label) == IF label = "Movie" THEN "listAllMovies" ELSE "listAllPeople"

\* record.get('m').properties / record.get('p').properties
Properties(n) ==
    [title |-> IF n.label = "Movie" THEN n.key ELSE NoVal,
     name |-> IF n.label = "Movie" THEN NoVal ELSE n.key,
     released |-> n.released, tagline |-> n.tagline, born |-> n.born]

\* MATCH (m:Label) RETURN m ORDER BY m.key  -- before SKIP and LIMIT
Ordered(N, label) == SortNodes(BagFilter(N, LAMBDA n : n.label = label))

\* const skip = (page - 1) * limit
SkipWholePages(page, limit) == page * limit

Skip(page, limit) == (page - 1) * limit

\* ... SKIP $skip LIMIT $limit
SkipLimit(rows, skip, limit) ==
    LET last == IF skip + limit < Len(rows) THEN skip + limit ELSE Len(rows)
    IN SubSeq(rows, skip + 1, last)

\* Math.ceil(totalItems / limit); a division by 0 gives Infinity, 0 / 0 NaN
Ceil(a, b) ==
    IF b = 0 THEN (IF a = 0 THEN "NaN" ELSE "Infinity")
    ELSE (a + b - 1) \div b

\* first statement of a list call: MATCH (m:Label) RETURN count(m) AS total
listCount(label, page, limit) ==
    /\ listing.phase # "counted"
    /\ listing' = [phase |-> "counted", label |-> label, page |-> page,
                   limit |-> limit, totalItems |-> Len(Ordered(nodes, label)),
                   writes |-> 0, history |-> {Ordered(nodes, label)}]
    /\ UNCHANGED <<nodes, edges, res, http, calls>>

\* second statement of the call, and the response built from both; the
\* database refuses a negative SKIP or LIMIT, and the catch block wraps its
\* error
listPage ==
    /\ listing.phase = "counted"
    /\ LET skip == Skip(listing.page, listing.limit)
           rows == SkipLimit(Ordered(nodes, listing.label), skip, listing.limit)
       IN res' = IF skip < 0 \/ listing.limit < 0
                 THEN Result(ListOp(listing.label), NoVal, NoVal,
                             <<listing.page, listing.limit>>, "DatabaseError",
                             0, 0, 0, 0)
                 ELSE [Result(ListOp(listing.label), NoVal, NoVal,
                              <<listing.page, listing.limit>>, "ok", 0, 0, 0, 0)
                         EXCEPT !.out = Some([data |-> [i \in 1..Len(rows) |->
                                                           Properties(rows[i])],
                                              page |-> listing.page,
                                              limit |-> listing.limit,
                                              totalItems |-> listing.totalItems,
                                              totalPages |-> Ceil(listing.totalItems,
                                                                  listing.limit)])]
    /\ listing' = [listing EXCEPT !.phase = "done"]
    /\ UNCHANGED <<nodes, edges, http, calls>>

\* another request's statement commits while a list call is between its two
\* statements: listing.history collects the stores the call has lived
\* through; a call that has answered is forgotten at the next write
Observe ==
    IF listing.phase = "counted"
    THEN /\ listing.writes < MaxWrites
         /\ listing' = [listing EXCEPT
                           !.writes = @ + 1,
                           !.history = @ \cup {Ordered(nodes', listing.label)}]
    ELSE listing' = NoListing

NextList ==
    \/ \E l \in ListLabels, p \in 1..MaxPage, k \in 1..MaxLimit : listCount(l, p, k)
    \/ listPage
    \/ \E t \in Titles, m \in MovieAttrs : addMovie(t, m[1], m[2]) /\ Observe
          /\ UNCHANGED <<http, calls>>
    \/ \E n \in PersonNames, b \in BornVals : addPerson(n, b) /\ Observe
          /\ UNCHANGED <<http, calls>>
    \/ \E t \in Titles : deleteMovie(t) /\ Observe
          /\ UNCHANGED <<http, calls>>
    \/ \E n \in PersonNames : deletePerson(n) /\ Observe
          /\ UNCHANGED <<http, calls>>

SpecList == Init /\ [][NextList]_vars

\* the list operations called directly, with any integers as page and limit
ListArgs == -1..MaxLimit

NextListArgs ==
    \/ \E l \in ListLabels, p \in ListArgs, k \in ListArgs : listCount(l, p, k)
    \/ listPage
    \/ \E t \in Titles, m \in MovieAttrs : addMovie(t, m[1], m[2]) /\ Observe
          /\ UNCHANGED <<http, calls>>
    \/ \E n \in PersonNames, b \in BornVals : addPerson(n, b) /\ Observe
          /\ UNCHANGED <<http, calls>>

SpecListArgs == Init /\ [][NextListArgs]_vars

(* ------------------------------ read queries -------------------------- *)

\* every order in which the rows of a statement without ORDER BY can arrive
AnyOrder(S) ==
    {f \in [1..Cardinality(S) -> S] :
        \A i, j \in 1..Cardinality(S) : f[i] = f[j] => i = j}

RECURSIVE Sum(_, _)
Sum(f, S) ==
    IF S = {} THEN 0
    ELSE LET x == CHOOSE y \in S : TRUE
         IN f[x] + Sum(f, S \ {x})

\* ORDER BY: the rows S in ascending order of rank[row]
RECURSIVE SortRows(_, _)
SortRows(S, rank) ==
    IF S = {} THEN <<>>
    ELSE LET r == CHOOSE x \in S : \A y \in S : rank[x] <= rank[y]
         IN <<r>> \o SortRows(S \ {r}, rank)

\* ORDER BY count DESC, key ASC as one rank is CountThenKey; KeyOnly is
\* ORDER BY key ASC
KeyOnly(count, key) == Ord(key)

CountThenKey(count, key) == Ord(key) - count * (Len(KeyOrder) + 1)

\* a pattern never binds one relationship twice: the number of ways r1 and
\* r2 can be bound to two different relationships of the store
PairRows(E, r1, r2) ==
    IF r1 = r2 THEN CopiesIn(r1, E) * (CopiesIn(r1, E) - 1)
    ELSE CopiesIn(r1, E) * CopiesIn(r2, E)

\* rows <<r1, r2>> of
\*   MATCH (x:FromLabel {..: $key})-[r1:TYPE]->(mid:MidLabel)<-[r2:TYPE]-(y:FromLabel)
Pattern(N, E, type, fl, fk, tl) ==
    {r \in Outgoing(N, E, type, fl, fk, tl)
             \X {e \in BagToSet(E) : /\ e.type = type /\ e.fl = fl /\ e.tl = tl
                                     /\ HasNode(N, fl, e.fk)} :
        r[2].tk = r[1].tk /\ PairRows(E, r[1], r[2]) > 0}

\* count(m) over the rows of one group is CountRows; FirstRow stops at the
\* first row of the group
FirstRow(E, rows) == 1

CountRows(E, rows) == Sum([r \in rows |-> PairRows(E, r[1], r[2])], rows)

getCoActors(N, E, actorName) ==
    LET rows == {r \in Pattern(N, E, "ACTED_IN", "Person", actorName, "Movie") :
                    r[2].fk # actorName}
        grouped == {[name |-> n,
                     sharedMoviesCount |-> CountRows(E, {r \in rows : r[2].fk = n})] :
                      n \in {r[2].fk : r \in rows}}
    IN SortRows(grouped, [g \in grouped |-> CountThenKey(g.sharedMoviesCount, g.name)])

getSharedMoviesBetweenActors(N, E, actor1Name, actor2Name) ==
    LET rows == {r \in Pattern(N, E, "ACTED_IN", "Person", actor1Name, "Movie") :
                    r[2].fk = actor2Name}
        sorted == SortRows(rows, [r \in rows |-> Ord(r[1].tk)])
    IN [i \in 1..Len(sorted) |->
           MovieProps(CHOOSE m \in NodesOf(N, "Movie", sorted[i][1].tk) : TRUE)]

getGenresOfMovie(N, E, movieTitle) ==
    {[name |-> e.tk] : e \in Outgoing(N, E, "HAS_GENRE", "Movie", movieTitle, "Genre")}

\* result.records of getStudioOfMovie; the function returns records[0] or null
getStudioOfMovie(N, E, movieTitle) ==
    {[name |-> e.fk] : e \in Incoming(N, E, "PRODUCED", "Studio", "Movie", movieTitle)}

\* rows of  MATCH (p:Person)-[:TYPE]->(m:Movie)
\*          RETURN p.name AS name, COUNT(DISTINCT m) AS movieCount
MovieCounts(N, E, type) ==
    {[name |-> p,
      movieCount |-> Cardinality({e.tk : e \in Outgoing(N, E, type, "Person", p, "Movie")})] :
        p \in {e.fk : e \in {r \in BagToSet(E) :
                                /\ r.type = type /\ r.fl = "Person" /\ r.tl = "Movie"
                                /\ HasNode(N, "Person", r.fk) /\ HasNode(N, "Movie", r.tk)}}}

\* ORDER BY movieCount DESC
Unordered(rows) == TRUE

Descending(rows) ==
    \A i, j \in 1..Len(rows) : i < j => rows[i].movieCount >= rows[j].movieCount

\* the results ORDER BY movieCount DESC LIMIT $n allows: rows of equal
\* movieCount come in any order
TopN(N, E, type, n) ==
    {SkipLimit(rows, 0, n) : rows \in {q \in AnyOrder(MovieCounts(N, E, type)) :
                                          Descending(q)}}

getTopNActorsByMovieCount(N, E, n) == TopN(N, E, "ACTED_IN", n)

getTopNDirectorsByMovieCount(N, E, n) == TopN(N, E, "DIRECTED", n)

\* the directors of the movies a person acted in
DirectorsOf(N, E, actorName) ==
    {d.fk : d \in UNION {Incoming(N, E, "DIRECTED", "Person", "Movie", e.tk) :
                            e \in Outgoing(N, E, "ACTED_IN", "Person", actorName, "Movie")}}

findCommonDirectorsBetweenActors(N, E, actor1Name, actor2Name) ==
    LET common == {[name |-> d] : d \in DirectorsOf(N, E, actor1Name)
                                          \cap DirectorsOf(N, E, actor2Name)}
    IN SortRows(common, [c \in common |-> Ord(c.name)])

findMoviesWithActorsFromGenre(N, E, genreName) ==
    LET inGenre == {e.fk : e \in Incoming(N, E, "HAS_GENRE", "Movie", "Genre", genreName)}
        actors == {a.fk : a \in UNION {Incoming(N, E, "ACTED_IN", "Person", "Movie", t) :
                                          t \in inGenre}}
        found == {m \in UNION {UNION {NodesOf(N, "Movie", e.tk) :
                                  e \in Outgoing(N, E, "ACTED_IN", "Person", a, "Movie")} :
                                  a \in actors} : m.key \notin inGenre}
        sorted == SortRows(found, [m \in found |-> Ord(m.key)])
    IN SkipLimit([i \in 1..Len(sorted) |-> MovieProps(sorted[i])], 0, 20)

(* ------------------------------ recommendations ----------------------- *)

\* LIMIT 10
RecommendLimit == 10

\* COLLECT(name): the names of the rows of one group, as a bag (a name once
\* per row; the order of the collected list is left open)
Collect(E, rows, Name(_)) ==
    LET names == {Name(r) : r \in rows}
    IN [n \in names |->
           Sum([r \in rows |-> IF Name(r) = n THEN PairRows(E, r[1], r[2]) ELSE 0], rows)]

\* COLLECT(DISTINCT name)
NotDistinct(names) == names

Distinct(names) == SetToBag(BagToSet(names))

\* COUNT(DISTINCT x)
CountDistinct(names) == Cardinality(BagToSet(names))

\* the records of a recommendation statement: the groups in ORDER BY count
\* DESC, title ASC, the first RecommendLimit of them, mapped to the response
Recommended(N, groups) ==
    LET sorted == SortRows(groups, [g \in groups |-> CountThenKey(g.count, g.title)])
        top == SkipLimit(sorted, 0, RecommendLimit)
    IN [i \in 1..Len(top) |->
           LET m == CHOOSE n \in NodesOf(N, "Movie", top[i].title) : TRUE
           IN [title |-> m.key, released |-> m.released, tagline |-> m.tagline,
               reason |-> top[i].names]]

recommendMoviesBySharedGenres(N, E, movieTitle) ==
    LET rows == {r \in Pattern(N, E, "HAS_GENRE", "Movie", movieTitle, "Genre") :
                    r[2].fk # movieTitle /\ HasNode(N, "Genre", r[1].tk)}
        groups == {[title |-> t,
                    names |-> Collect(E, {r \in rows : r[2].fk = t}, LAMBDA r : r[1].tk),
                    count |-> CountDistinct(
                                Collect(E, {r \in rows : r[2].fk = t}, LAMBDA r : r[1].tk))] :
                     t \in {r[2].fk : r \in rows}}
    IN Recommended(N, groups)

CastCrew == {"ACTED_IN", "DIRECTED"}

\* rows <<r1, r2>> of
\*   MATCH (m1:Movie {title: $movieTitle})<-[r1:ACTED_IN|DIRECTED]-(p:Person)
\*   MATCH (p)-[r2:ACTED_IN|DIRECTED]->(m2:Movie)  WHERE m1 <> m2
CastCrewRows(N, E, movieTitle) ==
    {r \in {e \in BagToSet(E) : /\ e.type \in CastCrew /\ e.fl = "Person"
                                /\ e.tl = "Movie" /\ e.tk = movieTitle
                                /\ HasNode(N, "Person", e.fk)
                                /\ HasNode(N, "Movie", movieTitle)}
             \X {e \in BagToSet(E) : /\ e.type \in CastCrew /\ e.fl = "Person"
                                     /\ e.tl = "Movie" /\ HasNode(N, "Movie", e.tk)} :
        r[2].fk = r[1].fk /\ r[2].tk # movieTitle}

recommendMoviesBySharedCastCrew(N, E, movieTitle) ==
    LET rows == CastCrewRows(N, E, movieTitle)
        groups == {[title |-> t,
                    names |-> Distinct(
                                Collect(E, {r \in rows : r[2].tk = t}, LAMBDA r : r[1].fk)),
                    count |-> CountDistinct(
                                Collect(E, {r \in rows : r[2].tk = t}, LAMBDA r : r[1].fk))] :
                     t \in {r[2].tk : r \in rows}}
    IN Recommended(N, groups)

(* ------------------------------ read requests -------------------------- *)

\* no read query throws on an empty result: result.records.map(...) is
\* returned as it is (ThrowIfEmpty is the connect operations' reaction)
ThrowIfEmpty(empty) == IF empty THEN "NotFound" ELSE "ok"

Returned(empty) == "ok"

\* a query answering with a list
List(op, a, t, x, rows) ==
    /\ res.op = "init"
    /\ res' = [Result(op, a, t, x, Returned(Len(rows) = 0), 0, 0, 0, 0)
                 EXCEPT !.out = Some(rows)]
    /\ UNCHANGED <<nodes, edges, listing, http, calls>>

\* a query answering with one record or null
Single(op, a, t, x, out) ==
    /\ res.op = "init"
    /\ res' = [Result(op, a, t, x, Returned(out = Null), 0, 0, 0, 0)
                 EXCEPT !.out = out]
    /\ UNCHANGED <<nodes, edges, listing, http, calls>>

SingleOps == {"getStudioOfMovie", "getShortestPathBetweenActors"}

\* the controllers of the read endpoints: 200 with the result, or 404 when
\* the service returned an empty list (null)
controller(r) ==
    IF r.op \in SingleOps
    THEN IF r.out = Null THEN 404 ELSE 200
    ELSE IF Len(r.out[1]) = 0 THEN 404 ELSE 200

MaxTop == 3

QueryPersons == {"P1", "P2", "P3"}
QueryMovies == {"M01", "M02"}
PersonArgs == QueryPersons \cup {"nobody"}
MovieArgs == QueryMovies \cup {"nothing"}
GenreArgs == {"G1", "nothing"}
StudioArgs == {"S1", "nothing"}

\* stores for the read requests: every person may have acted in every movie,
\* P1 may have directed both movies and P3 the second; M01 has a genre and
\* a studio
QuerySlots ==
    {Rel("ACTED_IN", "Person", p, "Movie", m, <<"r1">>) :
        <<p, m>> \in QueryPersons \X QueryMovies}
    \cup {Rel("DIRECTED", "Person", pm[1], "Movie", pm[2], NoVal) :
            pm \in {<<"P1", "M01">>, <<"P1", "M02">>, <<"P3", "M02">>}}

QueryFixed ==
    {Rel("HAS_GENRE", "Movie", "M01", "Genre", "G1", NoVal),
     Rel("PRODUCED", "Studio", "S1", "Movie", "M01", NoVal)}

InitQuery ==
    /\ nodes = SetToBag({Node("Person", p, NoVal, NoVal, NoVal) : p \in QueryPersons}
                        \cup {Node("Movie", m, "1999", NoVal, NoVal) : m \in QueryMovies}
                        \cup {Node("Genre", "G1", NoVal, NoVal, NoVal),
                              Node("Studio", "S1", NoVal, NoVal, NoVal)})
    /\ \E present \in SUBSET QuerySlots : edges = SetToBag(present \cup QueryFixed)
    /\ res = Result("init", NoVal, NoVal, NoVal, "ok", 0, 0, 0, 0)
    /\ listing = NoListing
    /\ http = NoResponse
    /\ calls = NoCalls

NextQuery ==
    \/ \E a \in PersonArgs : \E rows \in AnyOrder(getMoviesByActor(nodes, edges, a)) :
          List("getMoviesByActor", a, NoVal, NoVal, rows)
    \/ \E t \in MovieArgs : \E rows \in AnyOrder(getActorsInMovie(nodes, edges, t)) :
          List("getActorsInMovie", NoVal, t, NoVal, rows)
    \/ \E a \in PersonArgs :
          \E rows \in AnyOrder(getMoviesDirectedByPerson(nodes, edges, a)) :
             List("getMoviesDirectedByPerson", a, NoVal, NoVal, rows)
    \/ \E g \in GenreArgs : \E rows \in AnyOrder(getMoviesByGenre(nodes, edges, g)) :
          List("getMoviesByGenre", NoVal, NoVal, g, rows)
    \/ \E st \in StudioArgs : \E rows \in AnyOrder(getMoviesByStudio(nodes, edges, st)) :
          List("getMoviesByStudio", NoVal, NoVal, st, rows)
    \/ \E t \in MovieArgs : \E rows \in AnyOrder(getGenresOfMovie(nodes, edges, t)) :
          List("getGenresOfMovie", NoVal, t, NoVal, rows)
    \/ \E t \in MovieArgs :
          LET records == getStudioOfMovie(nodes, edges, t)
          IN \E out \in IF records = {} THEN {Null} ELSE {Some(r) : r \in records} :
                Single("getStudioOfMovie", NoVal, t, NoVal, out)
    \/ \E a \in PersonArgs :
          List("getCoActors", a, NoVal, NoVal, getCoActors(nodes, edges, a))
    \/ \E a \in PersonArgs, b \in PersonArgs :
          List("getSharedMoviesBetweenActors", a, NoVal, b,
               getSharedMoviesBetweenActors(nodes, edges, a, b))
    \/ \E a \in PersonArgs, b \in PersonArgs :
          /\ res.op = "init"
          /\ getShortestPathBetweenActors(a, b)
          /\ UNCHANGED <<listing, http, calls>>
    \/ \E t \in MovieArgs :
          List("recommendMoviesBySharedGenres", NoVal, t, NoVal,
               recommendMoviesBySharedGenres(nodes, edges, t))
    \/ \E t \in MovieArgs :
          List("recommendMoviesBySharedCastCrew", NoVal, t, NoVal,
               recommendMoviesBySharedCastCrew(nodes, edges, t))
    \/ \E n \in 1..MaxTop : \E rows \in getTopNActorsByMovieCount(nodes, edges, n) :
          List("getTopNActorsByMovieCount", NoVal, NoVal, n, rows)
    \/ \E n \in 1..MaxTop : \E rows \in getTopNDirectorsByMovieCount(nodes, edges, n) :
          List("getTopNDirectorsByMovieCount", NoVal, NoVal, n, rows)
    \/ \E a \in PersonArgs, b \in PersonArgs :
          List("findCommonDirectorsBetweenActors", a, NoVal, b,
               findCommonDirectorsBetweenActors(nodes, edges, a, b))
    \/ \E g \in GenreArgs :
          List("findMoviesWithActorsFromGenre", NoVal, NoVal, g,
               findMoviesWithActorsFromGenre(nodes, edges, g))

SpecQuery == InitQuery /\ [][NextQuery]_vars

(* stores for the recommendations: the first k movies of RecTitles, every
   third of them linked alike, to the genres and persons of one profile *)
RecTitles == <<"M01", "M02", "M03", "M04", "M05", "M06",
               "M07", "M08", "M09", "M10", "M11", "M12">>

RecProfiles ==
    {{},
     {<<"HAS_GENRE", "G1">>},
     {<<"HAS_GENRE", "G1">>, <<"HAS_GENRE", "G2">>},
     {<<"ACTED_IN", "P1">>},
     {<<"ACTED_IN", "P1">>, <<"DIRECTED", "P1">>, <<"ACTED_IN", "P2">>},
     {<<"ACTED_IN", "P1">>, <<"DIRECTED", "P2">>},
     {<<"HAS_GENRE", "G2">>, <<"DIRECTED", "P2">>}}

RecLink(m, link) ==
    IF link[1] = "HAS_GENRE"
    THEN Rel("HAS_GENRE", "Movie", m, "Genre", link[2], NoVal)
    ELSE Rel(link[1], "Person", link[2], "Movie", m,
             IF link[1] = "ACTED_IN" THEN <<"r1">> ELSE NoVal)

InitRecommend ==
    /\ \E k \in 1..Len(RecTitles) :
          /\ nodes = SetToBag({Node("Movie", RecTitles[i], "1999", NoVal, NoVal) :
                                  i \in 1..k}
                              \cup {Node("Genre", g, NoVal, NoVal, NoVal) : g \in {"G1", "G2"}}
                              \cup {Node("Person", q, NoVal, NoVal, NoVal) : q \in {"P1", "P2"}})
          /\ \E choice \in [0..2 -> RecProfiles] :
                edges = SetToBag(UNION {{RecLink(RecTitles[i], l) : l \in choice[i % 3]} :
                                           i \in 1..k})
    /\ res = Result("init", NoVal, NoVal, NoVal, "ok", 0, 0, 0, 0)
    /\ listing = NoListing
    /\ http = NoResponse
    /\ calls = NoCalls

RecArgs == {"M01", "M02", "nothing"}

NextRecommend ==
    \/ \E t \in RecArgs :
          List("recommendMoviesBySharedGenres", NoVal, t, NoVal,
               recommendMoviesBySharedGenres(nodes, edges, t))
    \/ \E t \in RecArgs :
          List("recommendMoviesBySharedCastCrew", NoVal, t, NoVal,
               recommendMoviesBySharedCastCrew(nodes, edges, t))

SpecRecommend == InitRecommend /\ [][NextRecommend]_vars

(* ------------------------------ HTTP requests -------------------------- *)

\* utils/errors.ts: an error is a record; message is the sequence of the
\* texts it is put together from, so that a text embedded in another
\* message can still be found there
ApiError(class, message, statusCode, isOperational) ==
    [class |-> class, api |-> TRUE, name |-> "Error", code |-> NoVal,
     message |-> message, statusCode |-> statusCode,
     isOperational |-> isOperational]

NotFoundError(message) == ApiError("NotFoundError", message, 404, TRUE)

BadRequestError(message) == ApiError("BadRequestError", message, 400, TRUE)

DatabaseError(message) == ApiError("DatabaseError", message, 500, TRUE)

\* what the driver throws when a statement fails
OriginalText == "original database error"

Neo4jError(code) ==
    [class |-> "Neo4jError", api |-> FALSE, name |-> "Neo4jError", code |-> code,
     message |-> <<OriginalText>>, statusCode |-> 0, isOperational |-> FALSE]

ConstraintValidationFailed == "Neo.ClientError.Schema.ConstraintValidationFailed"

\* the failures of a statement: the database cannot be reached, or the
\* statement is refused.  MERGE on the constrained key alone never conflicts
\* with the unique constraint, so no statement of the service fails with
\* ConstraintValidationFailed
FailureCodes == {"ServiceUnavailable"}

\* catch block of addMovie, addPerson, addGenre, addStudio
CatchAdd(error, exists, failed) ==
    IF error.code = ConstraintValidationFailed
    THEN BadRequestError(<<exists>>)
    ELSE DatabaseError(<<failed>> \o error.message)

\* catch block of the connect and delete operations
CatchOther(error, failed) ==
    IF error.class = "NotFoundError" THEN error
    ELSE DatabaseError(<<failed>> \o error.message)

\* errorHandler, the status: statusCode = err.statusCode is ApiStatus;
\* DefaultStatus is the handler leaving its initial statusCode = 500 in place
DefaultStatus(err) == 500

ApiStatus(err) == err.statusCode

StatusCode(err) ==
    IF err.api THEN ApiStatus(err)
    ELSE IF err.class = "ValidationError" THEN 400
    ELSE 500

\* middleware/errorHandler.ts: the JSON body of the response to an error,
\* for a value env of NODE_ENV
errorHandler(err, env) ==
    LET dev == env = "development"
        stack == IF dev THEN Some("stack") ELSE Null
    IN IF err.api
       THEN [message |-> err.message,
             details |-> IF err.isOperational /\ dev THEN Some(err.message) ELSE Null,
             errors |-> {}, stack |-> stack]
       ELSE IF err.class = "ValidationError"
       THEN [message |-> <<"Validation failed">>,
             details |-> Null, errors |-> {"details"}, stack |-> stack]
       ELSE IF err.name = "Neo4jError"
       THEN [message |-> <<"A database operation failed unexpectedly.">>,
             details |-> IF dev
                         THEN Some(<<"Neo4j Error: ">> \o err.message \o <<err.code>>)
                         ELSE Null,
             errors |-> {}, stack |-> stack]
       ELSE [message |-> <<"An unexpected internal server error occurred.">>,
             details |-> IF dev THEN Some(err.message) ELSE Null,
             errors |-> {}, stack |-> stack]

NodeEnvs == {"development", "production", "test"}

\* Joi rules of the schemas: a key is required or optional, and its value a
\* string of at least one character, a number, or an array of at least one
\* string of at least one character
Rule(kind, required) == [kind |-> kind, required |-> required]

addMovieSchema ==
    [title |-> Rule("string", TRUE), released |-> Rule("number", FALSE),
     tagline |-> Rule("string", FALSE)]

addPersonSchema ==
    [name |-> Rule("string", TRUE), born |-> Rule("number", FALSE)]

connectActorToMovieSchema ==
    [actorName |-> Rule("string", TRUE), movieTitle |-> Rule("string", TRUE),
     roles |-> Rule("strings", TRUE)]

connectDirectorToMovieSchema ==
    [directorName |-> Rule("string", TRUE), movieTitle |-> Rule("string", TRUE)]

connectMovieToGenreSchema ==
    [movieTitle |-> Rule("string", TRUE), genreNames |-> Rule("strings", TRUE)]

connectStudioToMovieSchema ==
    [studioName |-> Rule("string", TRUE), movieTitle |-> Rule("string", TRUE)]

deleteRelationshipSchema ==
    [fromName |-> Rule("string", TRUE), toName |-> Rule("string", TRUE),
     relationshipType |-> Rule("string", TRUE)]

\* Joi.string().min(1) / Joi.number() / Joi.array().items(...).min(1)
Valid(kind, v) ==
    CASE kind = "string" -> v # ""
      [] kind = "number" -> TRUE
      [] kind = "strings" -> Len(v) >= 1 /\ \A i \in 1..Len(v) : v[i] # ""

\* validate(schema, 'body'): schema.validate(req.body, {abortEarly: false});
\* the paths of the errors -- a required key that is missing, a key the
\* schema does not name, a value that breaks its rule.  AllowAll is a
\* middleware that calls next() whatever the body
AllowAll(schema, body) == {}

validate(schema, body) ==
    {k \in DOMAIN schema : schema[k].required /\ k \notin DOMAIN body}
    \cup {k \in DOMAIN body : k \notin DOMAIN schema}
    \cup {k \in DOMAIN body \cap DOMAIN schema : ~Valid(schema[k].kind, body[k])}

\* the value of an optional field of the body: undefined when it is left out
Field(body, k) == IF k \in DOMAIN body THEN body[k] ELSE NoVal

NoBody == [k \in {} |-> NoVal]

Response(route, params, body, stage, status, error) ==
    [route |-> route, params |-> params, body |-> body, stage |-> stage,
     status |-> status, error |-> error]

\* validate's own answer: 400 and the list of errors; the controller is not
\* called
Reject(route, params, body) ==
    /\ http' = Response(route, params, body, "validate", 400, Null)
    /\ UNCHANGED <<nodes, edges, res>>

\* the controller after its service call: res.status(success).json(...), or
\* next(error) with the NotFoundError the service threw
Answer(route, params, body, success, notFound) ==
    http' = IF res'.status = "ok"
            THEN Response(route, params, body, "service", success, Null)
            ELSE LET error == CatchOther(NotFoundError(<<notFound>>), "")
                 IN Response(route, params, body, "service",
                             StatusCode(error),
                             Some(error))

\* the statement fails in the database: its transaction writes nothing, the
\* service wraps the driver's error and the controller hands it on
Fail(route, params, body, op, a, t, x, error) ==
    /\ UNCHANGED <<nodes, edges>>
    /\ res' = Result(op, a, t, x, "DatabaseError", 0, 0, 0, 0)
    /\ http' = Response(route, params, body, "service",
                        StatusCode(error), Some(error))

(* the routes of routes/movieRoutes.ts with their controllers *)

addMovieRoute(body) ==
    LET title == Field(body, "title")
        released == Field(body, "released")
        tagline == Field(body, "tagline")
    IN IF validate(addMovieSchema, body) # {}
       THEN Reject("POST /movies", <<>>, body)
       ELSE \/ /\ addMovie(title, released, tagline)
               /\ Answer("POST /movies", <<>>, body, 201, "")
            \/ \E code \in FailureCodes :
                  Fail("POST /movies", <<>>, body, "addMovie", NoVal, title,
                       <<released, tagline>>,
                       CatchAdd(Neo4jError(code), "Movie already exists",
                                "Failed to add movie: "))

addPersonRoute(body) ==
    LET name == Field(body, "name")
        born == Field(body, "born")
    IN IF validate(addPersonSchema, body) # {}
       THEN Reject("POST /persons", <<>>, body)
       ELSE \/ /\ addPerson(name, born)
               /\ Answer("POST /persons", <<>>, body, 201, "")
            \/ \E code \in FailureCodes :
                  Fail("POST /persons", <<>>, body, "addPerson", name, NoVal, born,
                       CatchAdd(Neo4jError(code), "Person already exists",
                                "Failed to add person: "))

\* POST /genres and POST /studios validate the body with addMovieSchema and
\* pass it on as the input; MERGE (g:Genre {name: $name}) is refused by the
\* database when the input has no name
AddNamedRoute(route, op, label, body) ==
    LET name == Field(body, "name")
        failed == CatchAdd(Neo4jError("ServiceUnavailable"), "already exists",
                           "Failed to add: ")
    IN IF validate(addMovieSchema, body) # {}
       THEN Reject(route, <<>>, body)
       ELSE IF "name" \in DOMAIN body
       THEN \/ /\ IF label = "Genre" THEN addGenre(name) ELSE addStudio(name)
               /\ Answer(route, <<>>, body, 201, "")
            \/ Fail(route, <<>>, body, op, name, NoVal, NoVal, failed)
       ELSE Fail(route, <<>>, body, op, name, NoVal, NoVal,
                 CatchAdd(Neo4jError("Neo.ClientError.Statement"), "already exists",
                          "Failed to add: "))

addGenreRoute(body) == AddNamedRoute("POST /genres", "addGenre", "Genre", body)

addStudioRoute(body) == AddNamedRoute("POST /studios", "addStudio", "Studio", body)

connectActorToMovieRoute(actorName, movieTitle, body) ==
    LET route == "POST /actors/:actorName/act-in/:movieTitle"
        roles == Field(body, "roles")
    IN IF validate(connectActorToMovieSchema, body) # {}
       THEN Reject(route, <<actorName, movieTitle>>, body)
       ELSE \/ /\ connectActorToMovie(actorName, movieTitle, roles)
               /\ Answer(route, <<actorName, movieTitle>>, body, 201,
                         "Actor or movie not found.")
            \/ \E code \in FailureCodes :
                  Fail(route, <<actorName, movieTitle>>, body, "connectActorToMovie",
                       actorName, movieTitle, roles,
                       CatchOther(Neo4jError(code), "Failed to connect actor: "))

connectDirectorToMovieRoute(directorName, movieTitle, body) ==
    LET route == "POST /directors/:directorName/direct/:movieTitle"
    IN IF validate(connectDirectorToMovieSchema, body) # {}
       THEN Reject(route, <<directorName, movieTitle>>, body)
       ELSE \/ /\ connectDirectorToMovie(directorName, movieTitle)
               /\ Answer(route, <<directorName, movieTitle>>, body, 201,
                         "Director or movie not found.")
            \/ \E code \in FailureCodes :
                  Fail(route, <<directorName, movieTitle>>, body,
                       "connectDirectorToMovie", directorName, movieTitle, NoVal,
                       CatchOther(Neo4jError(code), "Failed to connect director: "))

connectMovieToGenreRoute(movieTitle, body) ==
    LET route == "POST /movies/:movieTitle/genres"
        genreNames == Field(body, "genreNames")
    IN IF validate(connectMovieToGenreSchema, body) # {}
       THEN Reject(route, <<movieTitle>>, body)
       ELSE \/ /\ connectMovieToGenre(movieTitle, genreNames)
               /\ Answer(route, <<movieTitle>>, body, 201,
                         "Movie not found or no genres were connected.")
            \/ \E code \in FailureCodes :
                  Fail(route, <<movieTitle>>, body, "connectMovieToGenre",
                       NoVal, movieTitle, genreNames,
                       CatchOther(Neo4jError(code), "Failed to connect movie to genres: "))

connectStudioToMovieRoute(studioName, movieTitle, body) ==
    LET route == "POST /studios/:studioName/produces/:movieTitle"
    IN IF validate(connectStudioToMovieSchema, body) # {}
       THEN Reject(route, <<studioName, movieTitle>>, body)
       ELSE \/ /\ connectStudioToMovie(studioName, movieTitle)
               /\ Answer(route, <<studioName, movieTitle>>, body, 201,
                         "Studio or movie not found.")
            \/ \E code \in FailureCodes :
                  Fail(route, <<studioName, movieTitle>>, body, "connectStudioToMovie",
                       studioName, movieTitle, NoVal,
                       CatchOther(Neo4jError(code), "Failed to connect studio: "))

\* DELETE /movies/:title and DELETE /persons/:name: no validate middleware
deleteMovieRoute(title) ==
    \/ /\ deleteMovie(title)
       /\ Answer("DELETE /movies/:title", <<title>>, NoBody, 200,
                 "Movie not found or could not be deleted.")
    \/ \E code \in FailureCodes :
          Fail("DELETE /movies/:title", <<title>>, NoBody, "deleteMovie",
               NoVal, title, NoVal,
               CatchOther(Neo4jError(code), "Failed to delete movie: "))

deletePersonRoute(name) ==
    \/ /\ deletePerson(name)
       /\ Answer("DELETE /persons/:name", <<name>>, NoBody, 200,
                 "Person not found or could not be deleted.")
    \/ \E code \in FailureCodes :
          Fail("DELETE /persons/:name", <<name>>, NoBody, "deletePerson",
               name, NoVal, NoVal,
               CatchOther(Neo4jError(code), "Failed to delete person: "))

deleteRelationshipRoute(body) ==
    LET fromName == Field(body, "fromName")
        toName == Field(body, "toName")
        relationshipType == Field(body, "relationshipType")
    IN IF validate(deleteRelationshipSchema, body) # {}
       THEN Reject("DELETE /relationships", <<>>, body)
       ELSE \/ /\ deleteRelationship(fromName, toName, relationshipType)
               /\ Answer("DELETE /relationships", <<>>, body, 200,
                         "Relationship not found or could not be deleted.")
            \/ \E code \in FailureCodes :
                  Fail("DELETE /relationships", <<>>, body, "deleteRelationship",
                       fromName, toName, relationshipType,
                       CatchOther(Neo4jError(code), "Failed to delete relationship: "))

(* requests: one key of each type, and for every route with a schema the
   bodies its documentation shows next to bodies the schema accepts and
   bodies that break a rule *)
HttpPersons == {"A"}
HttpTitles == {"T1"}

MovieBodies ==
    {[title |-> "T1"], [title |-> "T1", released |-> "1999", tagline |-> "tag"],
     NoBody, [title |-> ""]}

PersonBodies == {[name |-> "A"], [name |-> "A", born |-> "1960"], NoBody}

NameBodies == {[name |-> "A"], [title |-> "A"]}

RolesBodies ==
    {[roles |-> <<"r1">>]}
    \cup {[actorName |-> "A", movieTitle |-> "T1", roles |-> r] :
             r \in {<<"r1">>, <<"r2">>, <<>>, <<"">>}}

DirectorBodies == {NoBody, [directorName |-> "A", movieTitle |-> "T1"]}

GenreBodies ==
    {[genreNames |-> <<"A">>],
     [movieTitle |-> "T1", genreNames |-> <<"A">>],
     [movieTitle |-> "T1", genreNames |-> <<>>]}

StudioBodies == {NoBody, [studioName |-> "A", movieTitle |-> "T1"]}

DeleteBodies ==
    {[fromName |-> "A", toName |-> "T1", relationshipType |-> ty] :
        ty \in {"ACTED_IN", "DIRECTED"}}
    \cup {[fromName |-> "", toName |-> "T1", relationshipType |-> "ACTED_IN"]}

NextHttp ==
    \/ \E body \in MovieBodies : addMovieRoute(body)
          /\ UNCHANGED <<listing, calls>>
    \/ \E body \in PersonBodies : addPersonRoute(body)
          /\ UNCHANGED <<listing, calls>>
    \/ \E body \in NameBodies : addGenreRoute(body)
          /\ UNCHANGED <<listing, calls>>
    \/ \E body \in NameBodies : addStudioRoute(body)
          /\ UNCHANGED <<listing, calls>>
    \/ \E a \in HttpPersons, t \in HttpTitles, body \in RolesBodies :
          connectActorToMovieRoute(a, t, body)
          /\ UNCHANGED <<listing, calls>>
    \/ \E d \in HttpPersons, t \in HttpTitles, body \in DirectorBodies :
          connectDirectorToMovieRoute(d, t, body)
          /\ UNCHANGED <<listing, calls>>
    \/ \E t \in HttpTitles, body \in GenreBodies : connectMovieToGenreRoute(t, body)
          /\ UNCHANGED <<listing, calls>>
    \/ \E s \in StudioNames, t \in HttpTitles, body \in StudioBodies :
          connectStudioToMovieRoute(s, t, body)
          /\ UNCHANGED <<listing, calls>>
    \/ \E t \in HttpTitles : deleteMovieRoute(t)
          /\ UNCHANGED <<listing, calls>>
    \/ \E n \in HttpPersons : deletePersonRoute(n)
          /\ UNCHANGED <<listing, calls>>
    \/ \E body \in DeleteBodies : deleteRelationshipRoute(body)
          /\ UNCHANGED <<listing, calls>>

SpecHttp == Init /\ [][NextHttp]_vars

(* ------------------------------ sessions ------------------------------- *)

\* calls in flight at once
MaxCalls == 2

\* a service function is  const session = getSession(); try { statements }
\* catch (error) { rethrow or wrap } finally { await session.close() }.
\* A call is at "try" while statements are left to run, at "catch" after a
\* throw, at "finally" before session.close(), "closed" after it, and
\* "delivered" once its promise has settled
Statements(op) == IF op = "listAllMovies" THEN 2 ELSE 1

\* const session = getSession()
getSession(op) ==
    [op |-> op, pc |-> "try", opened |-> 1, open |-> 1,
     left |-> Statements(op), outcome |-> "none"]

\* await session.run(...) and the lines after it, up to the next await
Ran(call, status) ==
    [call EXCEPT !.left = call.left - 1,
                 !.outcome = status,
                 !.pc = IF status # "ok" THEN "catch"
                        ELSE IF call.left > 1 THEN "try"
                        ELSE "finally"]

\* finally { await session.close() } is Finally; CloseOnSuccess is a
\* session.close() at the end of the try block instead
CloseOnSuccess(call) ==
    [call EXCEPT !.open = IF call.outcome = "ok" THEN call.open - 1 ELSE call.open,
                 !.pc = "closed"]

Finally(call) ==
    [call EXCEPT !.open = call.open - 1, !.pc = "closed"]

At(c, pc) == c \in DOMAIN calls /\ calls[c].pc = pc

Running(c, op) == At(c, "try") /\ calls[c].op = op /\ calls[c].left > 0

SessionOps == {"addMovie", "connectActorToMovie", "deleteMovie", "listAllMovies"}

begin(c, op) ==
    /\ c \notin DOMAIN calls
    /\ calls' = calls @@ (c :> getSession(op))
    /\ UNCHANGED <<nodes, edges, res>>

runAddMovie(c) ==
    /\ Running(c, "addMovie")
    /\ addMovie("T1", NoVal, NoVal)
    /\ calls' = [calls EXCEPT ![c] = Ran(calls[c], res'.status)]

runConnectActorToMovie(c) ==
    /\ Running(c, "connectActorToMovie")
    /\ connectActorToMovie("A", "T1", <<"r1">>)
    /\ calls' = [calls EXCEPT ![c] = Ran(calls[c], res'.status)]

runDeleteMovie(c) ==
    /\ Running(c, "deleteMovie")
    /\ deleteMovie("T1")
    /\ calls' = [calls EXCEPT ![c] = Ran(calls[c], res'.status)]

\* either statement of a list call; it reads only
runList(c) ==
    /\ Running(c, "listAllMovies")
    /\ calls' = [calls EXCEPT ![c] = Ran(calls[c], "ok")]
    /\ UNCHANGED <<nodes, edges, res>>

\* the statement fails in the database: session.run rejects
failStatement(c) ==
    /\ At(c, "try") /\ calls[c].left > 0
    /\ calls' = [calls EXCEPT ![c] = Ran(calls[c], "DatabaseError")]
    /\ UNCHANGED <<nodes, edges, res>>

\* catch (error) { if (error instanceof ApiError) throw error;
\*                 throw new DatabaseError(...) }
catch(c) ==
    /\ At(c, "catch")
    /\ calls' = [calls EXCEPT ![c].pc = "finally"]
    /\ UNCHANGED <<nodes, edges, res>>

close(c) ==
    /\ At(c, "finally")
    /\ calls' = [calls EXCEPT ![c] = Finally(calls[c])]
    /\ UNCHANGED <<nodes, edges, res>>

\* the promise of the call settles with its result or error
deliver(c) ==
    /\ At(c, "closed")
    /\ calls' = [calls EXCEPT ![c].pc = "delivered"]
    /\ UNCHANGED <<nodes, edges, res>>

\* a store holding one person and one movie
InitSession ==
    /\ nodes = SetToBag({Node("Person", "A", NoVal, NoVal, NoVal),
                         Node("Movie", "T1", NoVal, NoVal, NoVal)})
    /\ edges = EmptyBag
    /\ res = Result("init", NoVal, NoVal, NoVal, "ok", 0, 0, 0, 0)
    /\ listing = NoListing
    /\ http = NoResponse
    /\ calls = NoCalls

NextSession ==
    \/ \E c \in 1..MaxCalls, op \in SessionOps : begin(c, op)
          /\ UNCHANGED <<listing, http>>
    \/ \E c \in 1..MaxCalls : runAddMovie(c) /\ UNCHANGED <<listing, http>>
    \/ \E c \in 1..MaxCalls : runConnectActorToMovie(c) /\ UNCHANGED <<listing, http>>
    \/ \E c \in 1..MaxCalls : runDeleteMovie(c) /\ UNCHANGED <<listing, http>>
    \/ \E c \in 1..MaxCalls : runList(c) /\ UNCHANGED <<listing, http>>
    \/ \E c \in 1..MaxCalls : failStatement(c) /\ UNCHANGED <<listing, http>>
    \/ \E c \in 1..MaxCalls : catch(c) /\ UNCHANGED <<listing, http>>
    \/ \E c \in 1..MaxCalls : close(c) /\ UNCHANGED <<listing, http>>
    \/ \E c \in 1..MaxCalls : deliver(c) /\ UNCHANGED <<listing, http>>

SpecSession == InitSession /\ [][NextSession]_vars

(* ------------------------------ properties ----------------------------- *)

Labels == {"Movie", "Person", "Genre", "Studio"}

Keys == Names \cup Titles

ConnectOps == {"connectActorToMovie", "connectDirectorToMovie",
               "connectMovieToGenre", "connectStudioToMovie"}

StoreUnchanged == nodes' = nodes /\ edges' = edges

\* C1: the store holds at most one node per (type, key), and adding a node
\* whose key already exists updates that node instead of creating a second.
NodeKeysUnique ==
    \A l \in Labels, k \in Keys : MatchCount(nodes, l, k) <= 1

AddExistingUpdates ==
    /\ (res'.op = "addMovie" /\ HasNode(nodes, "Movie", res'.t)) =>
          /\ Size(nodes') = Size(nodes)
          /\ NodesOf(nodes', "Movie", res'.t) =
                {Node("Movie", res'.t, res'.x[1], res'.x[2], NoVal)}
    /\ (res'.op = "addPerson" /\ HasNode(nodes, "Person", res'.a)) =>
          /\ Size(nodes') = Size(nodes)
          /\ NodesOf(nodes', "Person", res'.a) =
                {Node("Person", res'.a, NoVal, NoVal, res'.x)}
    /\ (res'.op = "addGenre" /\ HasNode(nodes, "Genre", res'.a)) => nodes' = nodes
    /\ (res'.op = "addStudio" /\ HasNode(nodes, "Studio", res'.a)) => nodes' = nodes

ListedMovie(N, E, t) ==
    \/ \E a \in PersonNames : \E r \in getMoviesByActor(N, E, a) : r.title = t
    \/ \E d \in PersonNames : \E r \in getMoviesDirectedByPerson(N, E, d) : r.title = t
    \/ \E g \in GenreNames : \E r \in getMoviesByGenre(N, E, g) : r.title = t
    \/ \E st \in StudioNames : \E r \in getMoviesByStudio(N, E, st) : r.title = t

ListedPerson(N, E, n) ==
    \E t \in Titles : \E r \in getActorsInMovie(N, E, t) : r.actorName = n

NoRelTouches(E, label, key) ==
    \A e \in BagToSet(E) : ~Touches(e, label, key)

AfterDelete ==
    /\ (res.op = "deleteMovie" /\ res.status = "ok") =>
          /\ NoRelTouches(edges, "Movie", res.t)
          /\ ~ListedMovie(nodes, edges, res.t)
    /\ (res.op = "deletePerson" /\ res.status = "ok") =>
          /\ NoRelTouches(edges, "Person", res.a)
          /\ ~ListedPerson(nodes, edges, res.a)

StaysUnlisted ==
    /\ \A t \in Titles :
          (~ListedMovie(nodes, edges, t) /\ ~(res'.op \in ConnectOps /\ res'.t = t))
             => ~ListedMovie(nodes', edges', t)
    /\ \A n \in PersonNames :
          (~ListedPerson(nodes, edges, n)
              /\ ~(res'.op = "connectActorToMovie" /\ res'.a = n))
             => ~ListedPerson(nodes', edges', n)

C2_DeleteDetaches == []AfterDelete /\ [][StaysUnlisted]_vars

C2_Witness ==
    /\ res.op = "deleteMovie" /\ res.status = "ok" /\ res.rd = 2
    /\ HasNode(nodes, "Person", "A")

\* C3: at most one relationship of a given type between a given ordered
\* pair of nodes.
C3_OneRelPerPair ==
    \A e \in BagToSet(edges) : RelCount(edges, e.type, e.fl, e.fk, e.tl, e.tk) = 1

C3_Witness ==
    /\ res.op = "connectMovieToGenre" /\ res.status = "ok"
    /\ res.x = <<"A", "A">>
    /\ RelCount(edges, "HAS_GENRE", "Movie", res.t, "Genre", "A") = 1

\* C4: connectActorToMovie fails with NotFound whenever the Person or the
\* Movie does not exist, and then creates no node and no relationship.
ConnectActorMissing ==
    (/\ res'.op = "connectActorToMovie"
     /\ ~(HasNode(nodes, "Person", res'.a) /\ HasNode(nodes, "Movie", res'.t)))
        => (res'.status = "NotFound" /\ StoreUnchanged)

C4_ConnectActorNotFound == [][ConnectActorMissing]_vars

C4_Witness ==
    /\ res.op = "connectActorToMovie" /\ res.status = "NotFound"
    /\ HasNode(nodes, "Movie", res.t) /\ ~HasNode(nodes, "Person", res.a)

\* C5: connecting an already connected (actor, movie) pair again succeeds,
\* leaves exactly one ACTED_IN relationship whose roles are those of the
\* latest call, and a call repeating the stored roles changes nothing.
ActedIn(a, t, roles) == Rel("ACTED_IN", "Person", a, "Movie", t, roles)

RolesAreLatest ==
    (res.op = "connectActorToMovie" /\ res.status = "ok") =>
        /\ RelCount(edges, "ACTED_IN", "Person", res.a, "Movie", res.t) = 1
        /\ CopiesIn(ActedIn(res.a, res.t, res.x), edges) = 1

ReconnectSucceeds ==
    /\ (/\ res'.op = "connectActorToMovie"
        /\ RelCount(edges, "ACTED_IN", "Person", res'.a, "Movie", res'.t) > 0
        /\ HasNode(nodes, "Person", res'.a) /\ HasNode(nodes, "Movie", res'.t))
          => (res'.status = "ok" /\ res'.rc = 0 /\ nodes' = nodes)
    /\ (/\ res'.op = "connectActorToMovie"
        /\ CopiesIn(ActedIn(res'.a, res'.t, res'.x), edges) > 0)
          => StoreUnchanged

C5_RolesReplaced == []RolesAreLatest /\ [][ReconnectSucceeds]_vars

C5_Witness ==
    /\ res.op = "connectActorToMovie" /\ res.status = "ok" /\ res.rc = 0
    /\ res.x = <<"r2">>
    /\ Size(edges) = 2

\* C6 (as stated): creating a relationship of any type fails with NotFound
\* if either endpoint does not exist -- for HAS_GENRE also when a named
\* Genre does not exist.
EndpointMissing ==
    \/ /\ res'.op = "connectDirectorToMovie"
       /\ ~(HasNode(nodes, "Person", res'.a) /\ HasNode(nodes, "Movie", res'.t))
    \/ /\ res'.op = "connectStudioToMovie"
       /\ ~(HasNode(nodes, "Studio", res'.a) /\ HasNode(nodes, "Movie", res'.t))
    \/ /\ res'.op = "connectMovieToGenre"
       /\ \/ ~HasNode(nodes, "Movie", res'.t)
          \/ \E i \in 1..Len(res'.x) : ~HasNode(nodes, "Genre", res'.x[i])

C6_AnyMissingEndpointNotFound ==
    [][EndpointMissing => res'.status = "NotFound"]_vars

\* C6 (amended): connectDirectorToMovie and connectStudioToMovie fail with
\* NotFound, changing nothing, when their Person/Studio or Movie is missing;
\* connectMovieToGenre fails with NotFound, changing nothing, exactly when
\* the Movie is missing or genreNames is empty, and otherwise succeeds,
\* creating every named Genre that did not exist and connecting it.
TwoEndpointMissing ==
    \/ /\ res'.op = "connectDirectorToMovie"
       /\ ~(HasNode(nodes, "Person", res'.a) /\ HasNode(nodes, "Movie", res'.t))
    \/ /\ res'.op = "connectStudioToMovie"
       /\ ~(HasNode(nodes, "Studio", res'.a) /\ HasNode(nodes, "Movie", res'.t))

GenreConnect ==
    res'.op = "connectMovieToGenre" =>
        IF ~HasNode(nodes, "Movie", res'.t) \/ res'.x = <<>>
        THEN res'.status = "NotFound" /\ StoreUnchanged
        ELSE /\ res'.status = "ok"
             /\ \A i \in 1..Len(res'.x) :
                   /\ MatchCount(nodes', "Genre", res'.x[i]) = 1
                   /\ RelCount(edges', "HAS_GENRE", "Movie", res'.t,
                               "Genre", res'.x[i]) = 1
             /\ res'.nc = Cardinality({res'.x[i] : i \in 1..Len(res'.x)}
                                      \ {g \in GenreNames : HasNode(nodes, "Genre", g)})

C6_MissingGenreIsCreated ==
    [][(TwoEndpointMissing => (res'.status = "NotFound" /\ StoreUnchanged))
        /\ GenreConnect]_vars

C6_Witness ==
    /\ res.op = "connectMovieToGenre" /\ res.status = "ok"
    /\ res.nc = 2 /\ res.rc = 2

\* C7: for each of the four relationship types, deleteRelationship naming the
\* keys of the source and the target of an existing relationship of that
\* type succeeds and removes exactly that relationship, leaving all nodes
\* and all other relationships unchanged; when there is none it fails with
\* NotFound.
Named(e, fromName, toName, relationshipType) ==
    e.fk = fromName /\ e.tk = toName /\ e.type = relationshipType

DeleteRelationshipExact ==
    res'.op = "deleteRelationship" =>
        LET hit == {e \in BagToSet(edges) : Named(e, res'.a, res'.t, res'.x)}
        IN IF hit = {}
           THEN res'.status = "NotFound" /\ StoreUnchanged
           ELSE /\ res'.status = "ok"
                /\ nodes' = nodes
                /\ edges' = BagFilter(edges, LAMBDA e : e \notin hit)

C7_DeleteRelationshipAnyType == [][DeleteRelationshipExact]_vars

\* the minimum number of hops between two persons when ACTED_IN and DIRECTED
\* may both be traversed in either direction (-1: not connected)
UndirectedFilter == {[type |-> "ACTED_IN", dir |-> "both"],
                     [type |-> "DIRECTED", dir |-> "both"]}

MinHops(a, b) ==
    Distance(edges, UndirectedFilter, <<"Person", a>>, <<"Person", b>>, Size(nodes))

IsPathQuery == res.op = "getShortestPathBetweenActors"

RelSegments(out) ==
    {i \in 1..Len(out.path) : out.path[i].type = "relationship"}

NodeSegments(out) ==
    {i \in 1..Len(out.path) : out.path[i].type = "node"}

\* C8: getShortestPathBetweenActors(a, b) reports a path whenever b can be
\* reached from a in at most 5 hops over ACTED_IN and DIRECTED relationships
\* taken in either direction, and the reported length is that minimum hop
\* count.
C8_UndirectedShortestPath ==
    (IsPathQuery /\ MinHops(res.a, res.t) \in 0..5) =>
        /\ res.out # Null
        /\ res.out[1].length = MinHops(res.a, res.t)

\* C9: getShortestPathBetweenActors never reports a path of more than 5
\* hops; when the minimum hop count exceeds 5 (or there is no path at all)
\* the result is null, returned and not thrown.
C9_HopLimit ==
    IsPathQuery =>
        /\ res.out # Null =>
              /\ res.out[1].length <= 5
              /\ Cardinality(RelSegments(res.out[1])) <= 5
        /\ MinHops(res.a, res.t) \notin 0..5 =>
              (res.out = Null /\ res.status = "ok")

C9_Witness ==
    /\ IsPathQuery
    /\ MinHops(res.a, res.t) = 6
    /\ res.out = Null

\* C10: getShortestPathBetweenActors(a, a) for an existing person a returns
\* length 0 with a path of exactly one node segment (a) and no relationship
\* segment.
C10_SelfPathSingleNode ==
    (IsPathQuery /\ res.a = res.t /\ HasNode(nodes, "Person", res.a)) =>
        /\ res.out # Null
        /\ res.out[1].length = 0
        /\ Len(res.out[1].path) = 1
        /\ Cardinality(NodeSegments(res.out[1])) = 1
        /\ res.out[1].path[1].name = res.a

ListOps == {"listAllMovies", "listAllPeople"}

\* res is the response of the list call that listing describes
IsList == res.op \in ListOps /\ listing.phase = "done"

\* the nodes of the listed type in the store, and the position of one of
\* them in their key-ascending ordering
Listed == {n \in BagToSet(nodes) : n.label = listing.label}

Position(n) == Cardinality({m \in Listed : Ord(m.key) <= Ord(n.key)})

\* the concatenation of pages 1..p of the store, as the page statement of
\* the code returns them
RECURSIVE FirstPages(_, _)
FirstPages(p, limit) ==
    IF p = 0 THEN <<>>
    ELSE FirstPages(p - 1, limit)
         \o SkipLimit(Ordered(nodes, listing.label), Skip(p, limit), limit)

\* C16: with no concurrent write, listAllMovies / listAllPeople (page >= 1,
\* limit >= 1) returns exactly the items at positions (page-1)*limit+1 ..
\* page*limit of the key-ascending ordering of all nodes of the type (an
\* empty list when the page is beyond the last one), totalItems is the node
\* count, totalPages is ceil(totalItems / limit), and pages 1..totalPages
\* together hold every node exactly once.
C16_Pagination ==
    (IsList /\ listing.writes = 0) =>
        LET out == res.out[1]
            first == (out.page - 1) * out.limit + 1
            wanted == {n \in Listed : Position(n) \in first..(out.page * out.limit)}
            all == FirstPages(out.totalPages, out.limit)
        IN /\ res.status = "ok"
           /\ Len(out.data) = Cardinality(wanted)
           /\ \A n \in wanted : out.data[Position(n) - first + 1] = Properties(n)
           /\ out.totalItems = Cardinality(Listed)
           /\ out.totalPages * out.limit >= out.totalItems
           /\ (out.totalPages - 1) * out.limit < out.totalItems \/ out.totalItems = 0
           /\ out.totalItems = 0 => out.totalPages = 0
           /\ Len(all) = Cardinality(Listed)
           /\ \A n \in Listed : Cardinality({i \in 1..Len(all) : all[i] = n}) = 1

C16_Witness ==
    /\ res.op = "listAllMovies" /\ listing.phase = "done" /\ listing.writes = 0
    /\ res.out[1].page = 2 /\ res.out[1].limit = 1 /\ res.out[1].totalPages = 2
    /\ Len(res.out[1].data) = 1 /\ res.out[1].data[1].title = "T2"

\* C17: the totalItems and the data of one list call both belong to one
\* single state of the store: among the states the store went through during
\* the call there is one whose node count is totalItems and whose requested
\* page is data.
C17_ListSeesOneState ==
    IsList =>
        \E rows \in listing.history :
            /\ Len(rows) = res.out[1].totalItems
            /\ LET page == SkipLimit(rows, Skip(listing.page, listing.limit),
                                     listing.limit)
               IN res.out[1].data = [i \in 1..Len(page) |-> Properties(page[i])]

\* C18: two addMovie calls for the same title (two connectActorToMovie calls
\* for the same pair) that execute concurrently commit one after the other:
\* afterwards there is exactly one such node (relationship), and its released
\* and tagline (its roles) are together those of one of the two calls.
SameMovieTwice ==
    (res.op = "addMovie" /\ res'.op = "addMovie" /\ res'.t = res.t) =>
        /\ MatchCount(nodes', "Movie", res.t) = 1
        /\ \E call \in {res, res'} :
              NodesOf(nodes', "Movie", res.t) =
                 {Node("Movie", res.t, call.x[1], call.x[2], NoVal)}

SamePairTwice ==
    (/\ res.op = "connectActorToMovie" /\ res.status = "ok"
     /\ res'.op = "connectActorToMovie" /\ res'.a = res.a /\ res'.t = res.t) =>
        /\ res'.status = "ok"
        /\ RelCount(edges', "ACTED_IN", "Person", res.a, "Movie", res.t) = 1
        /\ \E call \in {res, res'} :
              CopiesIn(ActedIn(res.a, res.t, call.x), edges') = 1

ActedTitles(p) ==
    {e.tk : e \in {r \in BagToSet(edges) :
                      r.type = "ACTED_IN" /\ r.fl = "Person" /\ r.fk = p /\ r.tl = "Movie"}}

Entries(rows) == 1..Len(rows)

\* C11: getCoActors(A) contains exactly the persons P # A that acted in at
\* least one movie A acted in, never A itself, each once, and each entry's
\* sharedMoviesCount is the number of distinct movies both acted in.
C11_CoActors ==
    res.op = "getCoActors" =>
        LET rows == res.out[1]
            coActors == {p \in QueryPersons \ {res.a} :
                            ActedTitles(p) \cap ActedTitles(res.a) # {}}
        IN /\ {rows[i].name : i \in Entries(rows)} = coActors
           /\ Len(rows) = Cardinality(coActors)
           /\ \A i \in Entries(rows) :
                 /\ rows[i].name # res.a
                 /\ rows[i].sharedMoviesCount =
                       Cardinality(ActedTitles(rows[i].name) \cap ActedTitles(res.a))

C11_Witness ==
    /\ res.op = "getCoActors" /\ Len(res.out[1]) = 2
    /\ res.out[1][1].sharedMoviesCount = 2
    /\ res.out[1][2].sharedMoviesCount = 1

\* C12: getSharedMoviesBetweenActors(actor1, actor2), actor1 = actor2
\* included, returns exactly the movies both have an ACTED_IN relationship
\* to, each once, in ascending order of title.
C12_SharedMovies ==
    res.op = "getSharedMoviesBetweenActors" =>
        LET rows == res.out[1]
            shared == ActedTitles(res.a) \cap ActedTitles(res.x)
        IN /\ {rows[i].title : i \in Entries(rows)} = shared
           /\ Len(rows) = Cardinality(shared)
           /\ \A i, j \in Entries(rows) :
                 i < j => Ord(rows[i].title) < Ord(rows[j].title)

\* the movies a person has a relationship of the given type to
TitlesOf(p, type) ==
    {e.tk : e \in {r \in BagToSet(edges) :
                      r.type = type /\ r.fl = "Person" /\ r.fk = p /\ r.tl = "Movie"}}

TopType == IF res.op = "getTopNActorsByMovieCount" THEN "ACTED_IN" ELSE "DIRECTED"

\* C15: getTopNActorsByMovieCount(N) / getTopNDirectorsByMovieCount(N), N
\* positive, returns min(N, number of persons with at least one ACTED_IN /
\* DIRECTED relationship) entries, each with movieCount the person's number
\* of distinct movies, in non-increasing movieCount order, and no omitted
\* person has a strictly larger count than an included one.
C15_TopN ==
    res.op \in {"getTopNActorsByMovieCount", "getTopNDirectorsByMovieCount"} =>
        LET rows == res.out[1]
            ranked == {p \in QueryPersons : TitlesOf(p, TopType) # {}}
            included == {rows[i].name : i \in Entries(rows)}
        IN /\ Len(rows) = IF res.x < Cardinality(ranked) THEN res.x
                          ELSE Cardinality(ranked)
           /\ Cardinality(included) = Len(rows)
           /\ included \subseteq ranked
           /\ \A i \in Entries(rows) :
                 rows[i].movieCount = Cardinality(TitlesOf(rows[i].name, TopType))
           /\ \A i, j \in Entries(rows) :
                 i < j => rows[i].movieCount >= rows[j].movieCount
           /\ \A p \in ranked \ included : \A q \in included :
                 Cardinality(TitlesOf(p, TopType)) <= Cardinality(TitlesOf(q, TopType))

\* top-2 asked with a single actor, of two movies: one entry, movieCount 2
C15_Witness ==
    /\ res.op = "getTopNActorsByMovieCount" /\ res.x = 2
    /\ Len(res.out[1]) = 1 /\ res.out[1][1].movieCount = 2
    /\ controller(res) = 200

FollowOps == {"getMoviesByActor", "getActorsInMovie", "getMoviesDirectedByPerson",
              "getMoviesByGenre", "getMoviesByStudio", "getGenresOfMovie",
              "getStudioOfMovie"}

InsightOps == {"getCoActors", "getSharedMoviesBetweenActors",
               "getShortestPathBetweenActors"}

RecommendOps == {"recommendMoviesBySharedGenres", "recommendMoviesBySharedCastCrew"}

RankingOps == {"getTopNActorsByMovieCount", "getTopNDirectorsByMovieCount",
               "findCommonDirectorsBetweenActors", "findMoviesWithActorsFromGenre"}

ReadOps == FollowOps \cup InsightOps \cup RecommendOps \cup RankingOps

\* a key of the last request names no node
AnchorAbsent ==
    \/ /\ res.op \in {"getMoviesByActor", "getMoviesDirectedByPerson", "getCoActors"}
       /\ ~HasNode(nodes, "Person", res.a)
    \/ /\ res.op \in {"getActorsInMovie", "getGenresOfMovie", "getStudioOfMovie"}
                        \cup RecommendOps
       /\ ~HasNode(nodes, "Movie", res.t)
    \/ /\ res.op \in {"getMoviesByGenre", "findMoviesWithActorsFromGenre"}
       /\ ~HasNode(nodes, "Genre", res.x)
    \/ /\ res.op = "getMoviesByStudio"
       /\ ~HasNode(nodes, "Studio", res.x)
    \/ /\ res.op \in {"getSharedMoviesBetweenActors", "findCommonDirectorsBetweenActors"}
       /\ ~(HasNode(nodes, "Person", res.a) /\ HasNode(nodes, "Person", res.x))
    \/ /\ res.op = "getShortestPathBetweenActors"
       /\ ~(HasNode(nodes, "Person", res.a) /\ HasNode(nodes, "Person", res.t))

NothingReturned ==
    IF res.op \in SingleOps THEN res.out = Null ELSE Len(res.out[1]) = 0

\* C19: a read-only query called with a key that names no existing node
\* returns an empty list (null for getStudioOfMovie and the path query) and
\* does not signal NotFound; NotFound comes only from connect and delete
\* operations.
C19_AbsentAnchorEmpty ==
    /\ (res.op \in ReadOps /\ AnchorAbsent) => (NothingReturned /\ res.status = "ok")
    /\ res.status = "NotFound" =>
          res.op \in ConnectOps \cup {"deleteMovie", "deletePerson", "deleteRelationship"}

C19_Witness ==
    /\ res.op = "getStudioOfMovie" /\ res.t = "nothing"
    /\ res.out = Null /\ res.status = "ok"

\* C20: the relationship-exploration, graph-insight and recommendation
\* endpoints answer 200 (with an empty array, or null for the studio and the
\* path) when the anchor does not exist or nothing matches, never 404.
C20_EmptyIs200 ==
    (res.op \in FollowOps \cup InsightOps \cup RecommendOps) => controller(res) = 200

MovieKeys == {n.key : n \in {m \in BagToSet(nodes) : m.label = "Movie"}}

\* the genres of a movie; the persons who acted in or directed it
GenresOf(m) ==
    {e.tk : e \in {r \in BagToSet(edges) :
                      r.type = "HAS_GENRE" /\ r.fl = "Movie" /\ r.fk = m}}

PersonsOf(m) ==
    {e.fk : e \in {r \in BagToSet(edges) :
                      r.type \in {"ACTED_IN", "DIRECTED"} /\ r.tl = "Movie" /\ r.tk = m}}

\* what a movie m shares with the movie of the request
SharedWith(m) ==
    IF res.op = "recommendMoviesBySharedGenres"
    THEN GenresOf(m) \cap GenresOf(res.t)
    ELSE PersonsOf(m) \cap PersonsOf(res.t)

RanksBefore(m1, m2) ==
    \/ Cardinality(SharedWith(m1)) > Cardinality(SharedWith(m2))
    \/ /\ Cardinality(SharedWith(m1)) = Cardinality(SharedWith(m2))
       /\ Ord(m1) < Ord(m2)

\* the recommendation is the top 10 of the movies other than res.t that
\* share something with it, ranked by the number shared, then by title, and
\* each reason holds what is shared, each name once
TopTenShared ==
    LET rows == res.out[1]
        candidates == {m \in MovieKeys \ {res.t} : SharedWith(m) # {}}
        included == {rows[i].title : i \in Entries(rows)}
    IN /\ res.t \notin included
       /\ included \subseteq candidates
       /\ Len(rows) <= 10
       /\ Len(rows) = IF Cardinality(candidates) < 10 THEN Cardinality(candidates)
                      ELSE 10
       /\ \A i, j \in Entries(rows) :
             i < j => RanksBefore(rows[i].title, rows[j].title)
       /\ \A m \in candidates \ included : \A q \in included : RanksBefore(q, m)
       /\ \A i \in Entries(rows) :
             rows[i].reason = SetToBag(SharedWith(rows[i].title))

\* C13: recommendMoviesBySharedGenres(M) never includes M and returns at
\* most 10 movies: those sharing at least one genre with M, ranked by the
\* number of distinct shared genres descending, then by title ascending, no
\* omitted movie ranking before an included one; each reason lists exactly
\* the shared genre names, each once.
C13_SharedGenres ==
    res.op = "recommendMoviesBySharedGenres" => TopTenShared

C13_Witness ==
    /\ res.op = "recommendMoviesBySharedGenres"
    /\ Len(res.out[1]) = 10
    /\ Cardinality({m \in MovieKeys \ {res.t} : SharedWith(m) # {}}) = 11
    /\ Cardinality(SharedWith(res.out[1][1].title)) = 2
    /\ Cardinality(SharedWith(res.out[1][10].title)) = 1
    /\ \E i, j \in Entries(res.out[1]) :
          i < j /\ Ord(res.out[1][i].title) > Ord(res.out[1][j].title)

\* C14: recommendMoviesBySharedCastCrew(M) never includes M and returns at
\* most 10 movies ranked by the number of distinct persons connected by
\* ACTED_IN or DIRECTED to both M and the result, descending, then by title
\* ascending; a person who both acted in and directed a movie counts once,
\* and the reason names each shared person once.
C14_SharedCastCrew ==
    res.op = "recommendMoviesBySharedCastCrew" => TopTenShared

C14_Witness ==
    /\ res.op = "recommendMoviesBySharedCastCrew"
    /\ Len(res.out[1]) >= 2
    /\ \E e1, e2 \in BagToSet(edges) :
          /\ e1.type = "ACTED_IN" /\ e2.type = "DIRECTED"
          /\ e1.fk = e2.fk /\ e1.tk = res.t /\ e2.tk = res.t
          /\ e1.fk \in SharedWith(res.out[1][1].title)
    /\ Cardinality(SharedWith(res.out[1][1].title)) = 2
    /\ Cardinality(SharedWith(res.out[1][2].title)) = 1

(* ------------------------------ HTTP properties ------------------------ *)

Rejected == http.stage = "validate"

Served == http.stage = "service"

\* C21: every failure is answered with the status of its kind -- a node or
\* relationship a connect or delete needs and does not find 404, a
\* validation failure or a uniqueness conflict 400, any other failure 500 --
\* and no error is answered with another status.
C21_ErrorStatusByKind ==
    /\ http.status \in {0, 200, 201, 400, 404, 500}
    /\ Rejected => http.status = 400
    /\ (Served /\ res.status = "NotFound") => http.status = 404
    /\ (Served /\ res.status = "DatabaseError") => http.status = 500
    /\ (Served /\ res.status = "ok") => http.status \in {200, 201}
    /\ StatusCode(CatchAdd(Neo4jError(ConstraintValidationFailed), "", "")) = 400

C21_Witness ==
    /\ http.route = "DELETE /relationships" /\ http.status = 404
    /\ RelCount(edges, "DIRECTED", "Person", "A", "Movie", "T1") = 1
    /\ http.body.relationshipType = "ACTED_IN"

\* C24: POST /genres and POST /studios with the body {"name": <non-empty
\* string>} pass validation, leave a Genre / Studio node of that name in the
\* store and answer 201.
C24_CreateGenreStudio ==
    /\ (http.route = "POST /genres" /\ http.body = [name |-> "A"]) =>
          (~Rejected /\ (res.status = "ok" =>
                            http.status = 201 /\ HasNode(nodes, "Genre", "A")))
    /\ (http.route = "POST /studios" /\ http.body = [name |-> "A"]) =>
          (~Rejected /\ (res.status = "ok" =>
                            http.status = 201 /\ HasNode(nodes, "Studio", "A")))

\* C25: POST /actors/:actorName/act-in/:movieTitle naming an existing actor
\* and movie, with a body that holds only a non-empty roles array of
\* non-empty strings, is accepted and leaves the ACTED_IN relationship with
\* these roles; POST /directors/.../direct/... and POST
\* /studios/.../produces/... are accepted with an empty body.
C25_ConnectWithDocumentedBody ==
    /\ (/\ http.route = "POST /actors/:actorName/act-in/:movieTitle"
        /\ DOMAIN http.body = {"roles"}
        /\ Valid("strings", http.body.roles)
        /\ HasNode(nodes, "Person", http.params[1])
        /\ HasNode(nodes, "Movie", http.params[2]))
          => /\ ~Rejected
             /\ res.status = "ok" =>
                   CopiesIn(ActedIn(http.params[1], http.params[2], http.body.roles),
                            edges) = 1
    /\ (/\ http.route \in {"POST /directors/:directorName/direct/:movieTitle",
                           "POST /studios/:studioName/produces/:movieTitle"}
        /\ http.body = NoBody)
          => ~Rejected

\* C26: whatever requests have been served, every ACTED_IN relationship in
\* the store carries a roles list that is non-empty and holds only non-empty
\* strings.
C26_RolesNonEmpty ==
    \A e \in BagToSet(edges) :
        e.type = "ACTED_IN" =>
            /\ Len(e.roles) >= 1
            /\ \A i \in 1..Len(e.roles) : e.roles[i] # ""

C26_Witness ==
    /\ http.route = "POST /actors/:actorName/act-in/:movieTitle"
    /\ http.status = 201
    /\ CopiesIn(ActedIn("A", "T1", <<"r2">>), edges) = 1

\* C27: when NODE_ENV is not 'development' no error response carries a stack
\* trace, a details field or the text of the original database error.
C27_NoDetailOutsideDevelopment ==
    \A env \in NodeEnvs \ {"development"} :
        http.error # Null =>
            LET response == errorHandler(http.error[1], env)
            IN /\ response.stack = Null
               /\ response.details = Null
               /\ \A i \in 1..Len(response.message) :
                     response.message[i] # OriginalText

\* C29: a mutation request answered with an error leaves the nodes, their
\* attributes and the relationships as they were; connectMovieToGenre for a
\* missing movie creates no Genre node, and a request that validate rejects
\* reaches no service operation.
ErrorLeavesStore ==
    /\ http'.status >= 400 => StoreUnchanged
    /\ http'.stage = "validate" => res' = res

C29_ErrorLeavesStore == [][ErrorLeavesStore]_vars

C29_Witness ==
    /\ http.route = "POST /movies/:movieTitle/genres" /\ http.status = 404
    /\ res.op = "connectMovieToGenre" /\ res.x = <<"A">>
    /\ ~HasNode(nodes, "Genre", "A")
    /\ HasNode(nodes, "Person", "A")


\* C22: a list operation called with a non-positive page or limit is
\* rejected with an invalid-argument error by the operation itself, before
\* any statement reaches the store.
C22_ListRejectsNonPositive ==
    /\ listing.phase # "idle" => (listing.page >= 1 /\ listing.limit >= 1)
    /\ IsList =>
          \/ res.x[1] >= 1 /\ res.x[2] >= 1
          \/ res.status = "InvalidArgument"


\* C28: after any sequence of add, connect and delete operations every
\* relationship has both of its endpoints in the store, and the endpoints
\* carry the labels of its type: ACTED_IN and DIRECTED from a Person to a
\* Movie, HAS_GENRE from a Movie to a Genre, PRODUCED from a Studio to a Movie.
C28_NoDanglingEdges ==
    \A e \in BagToSet(edges) :
        /\ HasNode(nodes, e.fl, e.fk)
        /\ HasNode(nodes, e.tl, e.tk)
        /\ \/ e.type \in {"ACTED_IN", "DIRECTED"} /\ e.fl = "Person" /\ e.tl = "Movie"
           \/ e.type = "HAS_GENRE" /\ e.fl = "Movie" /\ e.tl = "Genre"
           \/ e.type = "PRODUCED" /\ e.fl = "Studio" /\ e.tl = "Movie"

\* a person with a relationship has been deleted while other relationships
\* stay in the store
C28_Witness ==
    /\ res.op = "deletePerson" /\ res.status = "ok"
    /\ res.rd > 0
    /\ Size(edges) > 0

\* C23: addMovie on a title that already exists leaves the movie with
\* exactly this call's released and tagline, a property the call omits being
\* absent afterwards; likewise born for addPerson.
UpsertOverwrites ==
    /\ (res'.op = "addMovie" /\ HasNode(nodes, "Movie", res'.t)) =>
          \A n \in NodesOf(nodes', "Movie", res'.t) :
              /\ n.released = res'.x[1]
              /\ n.tagline = res'.x[2]
    /\ (res'.op = "addPerson" /\ HasNode(nodes, "Person", res'.a)) =>
          \A n \in NodesOf(nodes', "Person", res'.a) : n.born = res'.x

SessionsOpen == {c \in DOMAIN calls : calls[c].open > 0}

Delivered(c) == calls[c].pc = "delivered"

\* C30: every service call opens exactly one session and has closed it
\* before its result or error is delivered, on every path; once every call
\* in flight has completed no session is open.
C30_SessionPerCall ==
    /\ \A c \in DOMAIN calls :
          /\ calls[c].opened = 1
          /\ calls[c].open \in {0, 1}
          /\ Delivered(c) => calls[c].open = 0
    /\ (\A c \in DOMAIN calls : Delivered(c)) => SessionsOpen = {}

\* one call has delivered an error while another still holds its session
C30_Witness ==
    \E c \in DOMAIN calls, d \in DOMAIN calls :
        /\ Delivered(c)
        /\ calls[c].outcome \in {"NotFound", "DatabaseError"}
        /\ calls[d].open = 1 /\ calls[d].pc = "try"

====
